---- MODULE Spec2Model ----
(***************************************************************************)
(* Model of the proxy core of the AI interaction proxy:                    *)
(*   - proxyMiddleware          (src/middleware/proxyMiddleware.js)        *)
(*   - ProxyService             (src/services/proxyService.js)             *)
(*   - the ProxyConfig model    (src/models/ProxyConfig.js)                *)
(*   - PUT /config of proxyRoutes and ProxyController.updateProxyConfig    *)
(*   - the traffic query, the modifier methods on JavaScript objects       *)
(*   - ScriptService            (src/services/scriptService.js)            *)
(*   - the Userscript model     (src/models/Userscript.js)                 *)
(*   - executeInSandbox, the middleware chains of app.js, the handlers of  *)
(*     scriptRoutes, GET /traffic, config.js and database.js, each in a    *)
(*     specification of its own further down                               *)
(*                                                                         *)
(* The persistent store is the abstract document store of the design: one  *)
(* collection per mongoose model, kept as a sequence in insertion order.   *)
(* A write either succeeds or is rejected (storage fault); the code treats *)
(* every rejection of save() the same way, whatever its cause.  findOne    *)
(* and findOneAndUpdate with the empty filter {} address the first         *)
(* document of the collection in natural (insertion) order.  A document    *)
(* keeps the fields it was built with, as the unit test of logProxyTraffic *)
(* expects (it reads method, url, statusCode, ... back through             *)
(* ProxyConfig.findOne); the validators of proxyConfigSchema are operators *)
(* of their own and are applied only where the code asks for them.         *)
(* Userscript documents are built from the paths of userscriptSchema, so   *)
(* for them save() and findByIdAndUpdate({runValidators: true}) apply the  *)
(* schema: its setters, its validators and the unique index on name.       *)
(*                                                                         *)
(* Each `await` of the code is an interleaving point: the code between two *)
(* awaits is one action.                                                   *)
(***************************************************************************)
EXTENDS Integers, Sequences, FiniteSets, TLC

(***************************************************************************)
(* Bounds                                                                  *)
(***************************************************************************)
MaxExchanges == 2
\* traffic query: documents in the queried collection, distinct creation
\* times, pages fetched by one paginated query
MaxDocs == 2
MaxTime == 2
MaxPages == 2
\* modifier: nesting depth of a body object, writes made to the argument
\* after the call
MaxNesting == 2
MaxMutations == 1
\* scripts: clients with a store operation in flight, documents ever created
MaxClients == 2
MaxScripts == 2
\* sandbox: invocations of executeScript
MaxInvocations == 2
\* database.js: failed connection attempts that are counted
MaxAttempts == 5

Exchanges == 1..MaxExchanges

\* absent values: a missing string-valued field, a missing number, a
\* missing hostname
None == "none"
NoNumber == 0 - 1
NoHostname == <<>>

(***************************************************************************)
(* Inputs                                                                  *)
(***************************************************************************)
\* req.method / req.url as express hands them to a middleware mounted on
\* /api/proxy (the url is relative to the mount point).
Urls == {"/chat", "/inject"}
\* a request as proxyMiddleware destructures it; wellFormed = FALSE stands
\* for a req whose headers is not an object
Requests ==
  [method : {"POST"}, url : Urls, headers : {"h"}, body : {"b"},
   wellFormed : {TRUE}]
  \cup {[method |-> "POST", url |-> "/chat", headers |-> None,
          body |-> None, wellFormed |-> FALSE]}

\* status codes the target answers with
TargetStatus == {200}

\* process.env.PROXY_TARGET_HOSTNAME / PROXY_TARGET_PORT
EnvHostname == <<"e", ".", "e">>
EnvPort == 8080

\* hostnames offered to updateProxyConfig, as character sequences:
\* "a.a" (valid) and "a a" (outside the hostname grammar)
Hostnames == { <<"a", ".", "a">>, <<"a", " ", "a">> }
Config(h, p) ==
  [targetHostname |-> h, targetPort |-> p,
   requestModifications |-> "m", responseModifications |-> "m"]
Configs ==
  {Config(h, 80) : h \in Hostnames} \cup {Config(<<"a", ".", "a">>, 65536)}

(***************************************************************************)
(* Errors (utils/errors classes, told apart by name and message)           *)
(***************************************************************************)
Err(name, message) == [name |-> name, message |-> message]

NoErr == Err(None, None)

InvalidRequestDataError == Err("Error", "Invalid request data")
ForwardingError == Err("ProxyTrafficLogError", "Error forwarding proxy request")
LoggingError == Err("ProxyTrafficLogError", "Error logging proxy traffic")
ConfigUpdateError ==
  Err("ProxyConfigurationError", "Error updating proxy configuration")
ConfigFetchError ==
  Err("ProxyConfigurationError", "Error fetching proxy configuration")
\* the 400 answer of a controller: {errors: errors.array()}
ValidationErrors == Err("400", "errors")

(***************************************************************************)
(* Hostname grammar                                                        *)
(***************************************************************************)
\* [a-zA-Z0-9-]
IsHostChar(c) == c \in {"a", "e", "0", "-"}

\* the separator atom of the regular expression: an escaped dot matches the
\* dot only, an unescaped dot matches any character
IsSep(c, escaped) == IF escaped THEN c = "." ELSE TRUE

\* matches  (SEP [a-zA-Z0-9-]+)* $  from position i of s
RECURSIVE MatchGroups(_, _, _)
MatchGroups(s, i, escaped) ==
  \/ i = Len(s) + 1
  \/ /\ i + 1 <= Len(s)
     /\ IsSep(s[i], escaped)
     /\ IsHostChar(s[i + 1])
     /\ \E j \in (i + 2)..(Len(s) + 1) :
          /\ \A k \in (i + 2)..(j - 1) : IsHostChar(s[k])
          /\ MatchGroups(s, j, escaped)

\* matches  ^[a-zA-Z0-9-]+ (SEP [a-zA-Z0-9-]+)* $
MatchHostname(s, escaped) ==
  /\ Len(s) >= 1
  /\ IsHostChar(s[1])
  /\ \E j \in 2..(Len(s) + 1) :
       /\ \A k \in 2..(j - 1) : IsHostChar(s[k])
       /\ MatchGroups(s, j, escaped)

\* proxyConfigSchema.targetHostname validator: /^[a-zA-Z0-9-]+(\.[a-zA-Z0-9-]+)*$/
SchemaHostnameValid(s) == MatchHostname(s, TRUE)
\* proxyConfigSchema.targetPort: min 1, max 65535
SchemaPortValid(p) == p >= 1 /\ p <= 65535

\* PUT /config validators: matches(/^[a-zA-Z0-9-]+(.[a-zA-Z0-9-]+)*$/) and
\* isInt({min: 1, max: 65535})
RouteConfigValid(c) ==
  /\ MatchHostname(c.targetHostname, FALSE)
  /\ c.targetPort >= 1 /\ c.targetPort <= 65535

(***************************************************************************)
(* Documents of the ProxyConfig collection                                 *)
(***************************************************************************)
\* the document logProxyTraffic builds: new ProxyConfig({method, url, ...})
TrafficDoc(request, response) ==
  [method |-> request.method, url |-> request.url,
   headers |-> request.headers, body |-> request.body,
   statusCode |-> response.statusCode,
   responseHeaders |-> response.headers, responseBody |-> response.body,
   targetHostname |-> NoHostname, targetPort |-> NoNumber,
   requestModifications |-> None, responseModifications |-> None]

\* the document an upsert inserts when the collection is empty
EmptyDoc ==
  [method |-> None, url |-> None, headers |-> None, body |-> None,
   statusCode |-> NoNumber, responseHeaders |-> None,
   responseBody |-> None,
   targetHostname |-> NoHostname, targetPort |-> NoNumber,
   requestModifications |-> None, responseModifications |-> None]

\* findOneAndUpdate's update document {$set: config}
ApplyConfig(doc, c) ==
  [doc EXCEPT !.targetHostname = c.targetHostname,
              !.targetPort = c.targetPort,
              !.requestModifications = c.requestModifications,
              !.responseModifications = c.responseModifications]

\* ProxyConfig.findOneAndUpdate({}, config, {new: true, upsert: true})
FindOneAndUpdate(coll, c) ==
  IF coll = <<>> THEN <<ApplyConfig(EmptyDoc, c)>>
  ELSE [coll EXCEPT ![1] = ApplyConfig(coll[1], c)]

\* ProxyConfig.findOne({}): the first document, null on an empty collection
FindOne(coll) ==
  IF coll = <<>> THEN [isNull |-> TRUE, doc |-> EmptyDoc]
  ELSE [isNull |-> FALSE, doc |-> coll[1]]

\* a document written by logProxyTraffic
IsTrafficRecord(doc) == doc.method # None
\* a document that holds a proxy configuration
HasConfig(doc) == doc.targetHostname # NoHostname

(***************************************************************************)
(* Traffic Modifier                                                        *)
(***************************************************************************)
\* ProxyService.modifyProxyRequest: {...requestData, headers: {...}, body}
ModifyProxyRequest(requestData) ==
  [method |-> requestData.method, url |-> requestData.url,
   headers |-> requestData.headers,
   body |-> IF requestData.body # None THEN requestData.body ELSE None]

\* ProxyService.modifyProxyResponse
ModifyProxyResponse(responseData) ==
  [statusCode |-> responseData.statusCode,
   headers |-> responseData.headers,
   body |-> IF responseData.body # None THEN responseData.body ELSE None]

\* helpers.transformRequestResponse
TransformRequestResponse(response) ==
  [statusCode |-> response.statusCode, headers |-> response.headers,
   body |-> response.body]

(***************************************************************************)
(* Traffic query (ProxyService.getProxyTraffic)                            *)
(***************************************************************************)
\* urls and url filters of the traffic query, as character sequences
QueryUrls == { <<"/", "A", "b">>, <<"/", "x">> }
UrlFilters == { <<>>, <<"a", "b">> }
QueryMethods == {"GET", "POST"}
Times == 1..MaxTime

\* createdAt: { type: Date, default: Date.now }
WithCreatedAt(doc, t) == [createdAt |-> t] @@ doc

\* the traffic documents and the configuration documents a collection holds
QueryTrafficDocs ==
  { WithCreatedAt(
      TrafficDoc([method |-> m, url |-> u, headers |-> "h", body |-> "b"],
                 [statusCode |-> 200, headers |-> "rh", body |-> "rb"]), t) :
      m \in QueryMethods, u \in QueryUrls, t \in Times }
QueryConfigDocs ==
  { WithCreatedAt(ApplyConfig(EmptyDoc, Config(<<"a", ".", "a">>, 80)), t) :
      t \in Times }

\* the collections the traffic query runs on: only the first document can
\* hold the configuration (the upsert inserts into an empty collection only)
QueryCollections ==
  UNION { { c \in [1..n -> QueryTrafficDocs \cup QueryConfigDocs] :
              \A i \in 2..n : c[i] \in QueryTrafficDocs } : n \in 0..MaxDocs }

\* req.query after the validators of GET /traffic
Filters ==
  { f \in [startDate : Times, endDate : Times, targetUrl : UrlFilters,
           method : {None, "GET"}, page : 1..MaxPages, limit : 1..2] :
      f.startDate <= f.endDate }
NoFilter ==
  [startDate |-> 0, endDate |-> 0, targetUrl |-> <<>>, method |-> None,
   page |-> 0, limit |-> 0]

\* String.prototype.toLowerCase on one character
Fold(c) == IF c = "A" THEN "a" ELSE c

\* one atom of new RegExp(filters.targetUrl, 'i') against one character:
\* the dot matches any character, any other character matches itself
\* without regard to case
AtomMatches(p, c) == p = "." \/ Fold(p) = Fold(c)

\* new RegExp(pattern, 'i').test(str)
RegexTest(pattern, str) ==
  \E i \in 0..(Len(str) - Len(pattern)) :
    \A k \in 1..Len(pattern) : AtomMatches(pattern[k], str[i + k])

\* getProxyTraffic lines 48-54: the query document {createdAt: {$gte, $lte},
\* targetUrl: {$regex}, method}; a condition on a path the document does not
\* have is not satisfied
MatchesQuery(doc, f) ==
  /\ doc.createdAt >= f.startDate
  /\ doc.createdAt <= f.endDate
  /\ f.targetUrl # <<>> =>
       ("targetUrl" \in DOMAIN doc /\ RegexTest(f.targetUrl, doc.targetUrl))
  /\ f.method # None => doc.method = f.method

\* the positions of the documents of coll that find(query) selects
Selected(coll, f) == { i \in DOMAIN coll : MatchesQuery(coll[i], f) }

\* .sort({createdAt: -1}): the orders in which the selected documents can be
\* returned; the order of documents with equal createdAt is not determined
\* by the sort key
SortOrders(coll, sel) ==
  { o \in [1..Cardinality(sel) -> sel] :
      /\ \A i, j \in DOMAIN o : i # j => o[i] # o[j]
      /\ \A i, j \in DOMAIN o :
           i < j => coll[o[i]].createdAt >= coll[o[j]].createdAt }

\* .skip(n).limit(m) on an ordered result
SkipLimit(o, n, m) ==
  [k \in 1..(IF Len(o) - n > m THEN m
             ELSE IF Len(o) - n > 0 THEN Len(o) - n ELSE 0) |-> o[n + k]]

\* getProxyTraffic lines 56-61, for one order of the sort
ProxyTraffic(coll, f, o) ==
  LET page == SkipLimit(o, (f.page - 1) * f.limit, f.limit)
  IN  [k \in DOMAIN page |-> [pos |-> page[k], doc |-> coll[page[k]]]]

TrafficFetchError == Err("ProxyTrafficLogError", "Error fetching proxy traffic")

(***************************************************************************)
(* JavaScript values and objects of the Traffic Modifier                   *)
(***************************************************************************)
\* a value is a primitive or a reference to an object of the heap; a string
\* is its sequence of characters
Undefined == [t |-> "undefined", v |-> 0]
Null == [t |-> "null", v |-> 0]
Str(chars) == [t |-> "string", v |-> chars]
Num(n) == [t |-> "number", v |-> n]
Ref(a) == [t |-> "ref", v |-> a]

\* an object of the heap: a plain object or an array, with its own properties
Obj(kind, props) == [kind |-> kind, props |-> props]

\* `!x` is false
Truthy(val) ==
  CASE val.t = "undefined" -> FALSE
    [] val.t = "null" -> FALSE
    [] val.t = "string" -> val.v # <<>>
    [] val.t = "number" -> val.v # 0
    [] OTHER -> TRUE

\* typeof x === 'object'
TypeofObject(val) == val.t \in {"ref", "null"}

\* the property read x.key
Get(heap, val, key) ==
  IF val.t = "ref"
    THEN IF key \in DOMAIN heap[val.v].props
           THEN heap[val.v].props[key] ELSE Undefined
    ELSE Undefined

\* the own enumerable properties {...x} copies: those of an object or array,
\* the indexed characters of a string, none of any other value
OwnProps(heap, val) ==
  CASE val.t = "ref" -> heap[val.v].props
    [] val.t = "string" ->
         [k \in {ToString(i - 1) : i \in 1..Len(val.v)} |->
            Str(<<val.v[CHOOSE i \in 1..Len(val.v) : ToString(i - 1) = k]>>)]
    [] OTHER -> <<>>

\* the object literal {...data, headers: {...data.headers},
\* body: data.body ? {...data.body} : null}, its objects allocated on heap
SpreadCopy(heap, data) ==
  LET body == Get(heap, data, "body")
      h1 == Append(heap,
                   Obj("object", OwnProps(heap, Get(heap, data, "headers"))))
      h2 == IF Truthy(body)
              THEN Append(h1, Obj("object", OwnProps(heap, body))) ELSE h1
      copy == ("headers" :> Ref(Len(h1)))
                @@ ("body" :> (IF Truthy(body) THEN Ref(Len(h2)) ELSE Null))
                @@ OwnProps(heap, data)
      h3 == Append(h2, Obj("object", copy))
  IN  [heap |-> h3, value |-> Ref(Len(h3)), error |-> NoErr]

InvalidRequestError == Err("InvalidRequestError", "Invalid request data")
InvalidResponseError == Err("InvalidRequestError", "Invalid response data")

\* what a call that throws leaves behind
Thrown(heap, error) == [heap |-> heap, value |-> Undefined, error |-> error]

\* ProxyService.modifyProxyRequest on heap objects
ModifyProxyRequestOnHeap(heap, requestData) ==
  IF ~Truthy(requestData) \/ ~TypeofObject(requestData)
    THEN Thrown(heap, InvalidRequestError)
    ELSE SpreadCopy(heap, requestData)

\* ProxyService.modifyProxyResponse on heap objects
ModifyProxyResponseOnHeap(heap, responseData) ==
  IF ~Truthy(responseData) \/ ~TypeofObject(responseData)
    THEN Thrown(heap, InvalidResponseError)
    ELSE SpreadCopy(heap, responseData)

\* ProxyService.injectCustomResponse on heap objects
InjectCustomResponseOnHeap(heap, responseData) ==
  IF ~Truthy(responseData) \/ ~TypeofObject(responseData)
    THEN Thrown(heap, InvalidResponseError)
    ELSE SpreadCopy(heap, responseData)

\* the service method behind each operation
ServiceCall(op, heap, data) ==
  CASE op = "modifyRequest" -> ModifyProxyRequestOnHeap(heap, data)
    [] op = "modifyResponse" -> ModifyProxyResponseOnHeap(heap, data)
    [] op = "inject" -> InjectCustomResponseOnHeap(heap, data)

\* the value with every reference replaced by the object it points to
RECURSIVE DeepValue(_, _)
DeepValue(heap, val) ==
  IF val.t = "ref"
    THEN [t |-> "object", kind |-> heap[val.v].kind,
          props |-> [k \in DOMAIN heap[val.v].props |->
                       DeepValue(heap, heap[val.v].props[k])]]
    ELSE val

\* the addresses of the objects reachable from a value
RECURSIVE Reachable(_, _)
Reachable(heap, val) ==
  IF val.t = "ref"
    THEN {val.v} \cup
         UNION { Reachable(heap, heap[val.v].props[k]) :
                   k \in DOMAIN heap[val.v].props }
    ELSE {}

(***************************************************************************)
(* Script Registry (ScriptService, the Userscript model)                   *)
(***************************************************************************)
Clients == 1..MaxClients
ScriptIds == 1..MaxScripts

\* /^[\w\-]+$/ on the characters of the model
NameChars == {"a", "b", "_", "-"}

\* String.prototype.trim
RECURSIVE Trim(_)
Trim(chars) ==
  IF chars = <<>> THEN chars
  ELSE IF Head(chars) = " " THEN Trim(Tail(chars))
  ELSE IF chars[Len(chars)] = " " THEN Trim(SubSeq(chars, 1, Len(chars) - 1))
  ELSE chars

\* the fields of a script, each a string or undefined
ScriptData(name, description, content) ==
  [name |-> name, description |-> description, content |-> content]
NoScriptData == ScriptData(Undefined, Undefined, Undefined)

\* helpers.sanitizeScript: blanks in the name become underscores (the one
\* behaviour the unit test of createScript shows); nothing else changes
SanitizeScript(data) ==
  [data EXCEPT !.name =
     IF @.t = "string"
       THEN Str([i \in 1..Len(@.v) |-> IF @.v[i] = " " THEN "_" ELSE @.v[i]])
       ELSE @]

\* the setters of userscriptSchema: trim on name and description
SchemaCast(data) ==
  [data EXCEPT !.name = IF @.t = "string" THEN Str(Trim(@.v)) ELSE @,
               !.description = IF @.t = "string" THEN Str(Trim(@.v)) ELSE @]

\* required: true on a String path
Required(val) == val.t = "string" /\ val.v # <<>>

\* the validator of userscriptSchema.name
NameValidator(val) ==
  val.t = "string" /\ val.v # <<>> /\ \A i \in 1..Len(val.v) : val.v[i] \in NameChars

\* document validation on save(): every path required, the name validated
SaveValid(data) ==
  /\ Required(data.name)
  /\ NameValidator(data.name)
  /\ Required(data.description)
  /\ Required(data.content)

\* update validators (runValidators: true): the paths the update sets
UpdateValid(data) ==
  /\ data.name # Undefined => (Required(data.name) /\ NameValidator(data.name))
  /\ data.description # Undefined => Required(data.description)
  /\ data.content # Undefined => Required(data.content)

\* a collection without the index on name
NoUniqueIndex(coll, id, name) == TRUE

\* unique: true on name: the index admits the name for document id when no
\* other document has it
UniqueIndexAllows(coll, id, name) ==
  \A d \in coll : d.id # id => d.name # name

\* a stored document
ScriptDoc(id, data) ==
  [id |-> id, name |-> data.name, description |-> data.description,
   content |-> data.content]
NoScript == ScriptDoc(0, NoScriptData)

\* $set of the paths the update names
ApplyUpdate(doc, data) ==
  [id |-> doc.id,
   name |-> IF data.name # Undefined THEN data.name ELSE doc.name,
   description |->
     IF data.description # Undefined THEN data.description
     ELSE doc.description,
   content |-> IF data.content # Undefined THEN data.content ELSE doc.content]

\* Userscript.findById
FindById(coll, id) ==
  IF \E d \in coll : d.id = id
    THEN CHOOSE d \in coll : d.id = id ELSE NoScript

\* the error a method of ScriptService throws: the one its catch block
\* builds, whatever was caught; the message of all but the first names the
\* id of the call
ScriptFailure(op, cause) ==
  CASE cause = None -> NoErr
    [] op = "create" -> Err("InvalidScriptError", "Error creating userscript")
    [] op = "get" ->
         Err("InvalidScriptError", "Error fetching userscript (ID)")
    [] op = "update" ->
         Err("InvalidScriptError", "Error updating userscript (ID)")
    [] op = "delete" ->
         Err("InvalidScriptError", "Error deleting userscript (ID)")
    [] op = "execute" ->
         Err("ScriptExecutionError", "Error executing userscript (ID)")

\* a save() in flight: the data the caller passed, the data of the new
\* document, and the _id counter when the call was issued
Op(op, raw, data, since) ==
  [op |-> op, raw |-> raw, data |-> data, since |-> since]
NoOp == Op(None, NoScriptData, NoScriptData, 0)

\* a completed call: the method, the id it named, why it failed (None when
\* it did not), the error thrown, the document returned, and whether a
\* document was inserted while it was in flight
ScriptOutcome(op, id, cause, error, doc, raced) ==
  [op |-> op, id |-> id, cause |-> cause, error |-> error, doc |-> doc,
   raced |-> raced]
NoOutcome == ScriptOutcome(None, 0, None, NoErr, NoScript, FALSE)

\* the script data the clients submit
CreateInputs ==
  { ScriptData(Str(n), Str(<<"d">>), Str(<<"c">>)) :
      n \in { <<"a">>, <<"b">>, <<"a", "!">>, <<"a", " ", "b">> } }
    \cup { ScriptData(Str(<<"b">>), Str(<<" ", "d">>), Str(<<"c">>)) }
UpdateInputs ==
  { ScriptData(Str(n), Undefined, Undefined) : n \in {<<"a">>, <<"a", "!">>} }
    \cup { ScriptData(Undefined, Undefined, Str(<<"c", "2">>)) }

\* values of the middleware's locals before they are assigned
NoRequest ==
  [method |-> None, url |-> None, headers |-> None, body |-> None,
   wellFormed |-> FALSE]
NoModifiedRequest ==
  [method |-> None, url |-> None, headers |-> None, body |-> None]
NoResponse == [statusCode |-> NoNumber, headers |-> None, body |-> None]
NoConfig ==
  [targetHostname |-> NoHostname, targetPort |-> NoNumber,
   requestModifications |-> None, responseModifications |-> None]

\* the address forwardProxyRequest hands to makeHttpRequest
ForwardTarget == [host |-> EnvHostname, port |-> EnvPort]

\* the outcome of a configuration call as its caller sees it: the error
\* thrown (NoErr when none) and the value returned
Outcome(op, error, found) ==
  [op |-> op, error |-> error, isNull |-> found.isNull, doc |-> found.doc]

\* what a call returns that returns nothing
Nothing == [isNull |-> TRUE, doc |-> EmptyDoc]

VARIABLES
  store,       \* the ProxyConfig collection, in insertion order
  pc,          \* per exchange: where proxyMiddleware stands
  req,         \* per exchange: the incoming request
  modReq,      \* per exchange: modifiedRequest
  resp,        \* per exchange: what forwardProxyRequest holds / returned
  modResp,     \* per exchange: modifiedResponse
  err,         \* per exchange: the error handed to next(err)
  delivered,   \* per exchange: what res.send delivered to the client
  netCalls,    \* per exchange: sequence of addresses makeHttpRequest called
  netFailed,   \* per exchange: the network call was rejected
  saveFaults,  \* per exchange: number of save() calls the store rejected
  recorded,    \* per exchange: indexes of store its save() calls appended
  stages,      \* per exchange: pipeline stages completed, in order
  created,     \* history: created[i] is store[i] as it was first written
  lastUpdate,  \* the config of the last successful updateProxyConfig
  cfgResult,   \* the last configuration call since then and its outcome
  qColl,       \* traffic query: the ProxyConfig collection that is queried
  qFilter,     \* traffic query: the filters of the first call
  qPages,      \* traffic query: the pages returned so far, in order
  qErr,        \* traffic query: the error of the last call
  mHeap,       \* modifier: the objects of the JavaScript heap, by address
  mArg,        \* modifier: the value handed to the operation
  mCall,       \* modifier: the operation called and its entry point
  mResult,     \* modifier: the value the operation returned
  mErr,        \* modifier: the error of the operation
  mGiven,      \* modifier: the argument as it was when the call was made
  mReturned,   \* modifier: the result as it was when the call returned
  mMutations,  \* modifier: writes to the argument's objects since then
  xContext,    \* sandbox: the object the caller passes as context
  xRuns,       \* sandbox: the invocations of executeScript, in call order
  aReq,        \* app: the request express is handling, and what was done for it
  rReq,        \* script routes: per client, its request and the writes to res
  tMatching,   \* GET /traffic: how many documents the query document selects
  tReq,        \* GET /traffic: req.query.page and .limit, and what is done with them
  startup,     \* config.js: the config object as the module built it
  config,      \* config.js: the config object
  lastSet,     \* config.js: the last call of set, and the config before it
  dbConnected, \* database.js: mongoose is connected
  dbReachable, \* database.js: the database can be reached
  dbHandler,   \* database.js: the disconnected handler awaits connectDatabase()
  dbTimer,     \* database.js: the timer of line 51 is pending
  dbTimerCall, \* database.js: connectDatabase() called by the timer is running
  dbFailed,    \* database.js: attempts failed since the connection was lost
  scripts,     \* scripts: the documents of the Userscript collection
  nextId,      \* scripts: the _id the next inserted document gets
  sOp,         \* scripts: per client, the store operation in flight
  sOut,        \* scripts: the last operation completed and its outcome
  submitted    \* scripts: per _id, the data its create was called with,
               \*          while the document is neither updated nor deleted

proxyVars ==
  <<store, pc, req, modReq, resp, modResp, err, delivered, netCalls,
    netFailed, saveFaults, recorded, stages, created,
    lastUpdate, cfgResult>>

queryVars == <<qColl, qFilter, qPages, qErr>>

modVars ==
  <<mHeap, mArg, mCall, mResult, mErr, mGiven, mReturned, mMutations>>

scriptVars == <<scripts, nextId, sOp, sOut, submitted>>

sandboxVars == <<xContext, xRuns>>

appVars == <<aReq>>

routeVars == <<rReq>>

trafficVars == <<tMatching, tReq>>

configVars == <<startup, config, lastSet>>

dbVars == <<dbConnected, dbReachable, dbHandler, dbTimer, dbTimerCall, dbFailed>>

nonProxyVars == <<queryVars, modVars, scriptVars, sandboxVars, appVars, routeVars, trafficVars, configVars, dbVars>>
nonQueryVars == <<proxyVars, modVars, scriptVars, sandboxVars, appVars, routeVars, trafficVars, configVars, dbVars>>
nonModVars == <<proxyVars, queryVars, scriptVars, sandboxVars, appVars, routeVars, trafficVars, configVars, dbVars>>
nonScriptVars == <<proxyVars, queryVars, modVars, sandboxVars, appVars, routeVars, trafficVars, configVars, dbVars>>

nonSandboxVars == <<proxyVars, queryVars, modVars, scriptVars, appVars, routeVars, trafficVars, configVars, dbVars>>

nonAppVars == <<proxyVars, queryVars, modVars, scriptVars, sandboxVars, routeVars, trafficVars, configVars, dbVars>>

nonRouteVars == <<proxyVars, queryVars, modVars, scriptVars, sandboxVars, appVars, trafficVars, configVars, dbVars>>

nonTrafficVars == <<proxyVars, queryVars, modVars, scriptVars, sandboxVars, appVars, routeVars, configVars, dbVars>>

nonConfigVars == <<proxyVars, queryVars, modVars, scriptVars, sandboxVars, appVars, routeVars, trafficVars, dbVars>>

nonDbVars == <<proxyVars, queryVars, modVars, scriptVars, sandboxVars, appVars, routeVars, trafficVars, configVars>>

vars == <<proxyVars, queryVars, modVars, scriptVars, sandboxVars, appVars, routeVars, trafficVars, configVars, dbVars>>

exVars ==
  <<pc, req, modReq, resp, modResp, err, delivered, netCalls, netFailed,
    saveFaults, recorded, stages>>

cfgVars == <<lastUpdate, cfgResult>>

ProxyInit ==
  /\ store = <<>>
  /\ pc = [e \in Exchanges |-> "idle"]
  /\ req = [e \in Exchanges |-> NoRequest]
  /\ modReq = [e \in Exchanges |-> NoModifiedRequest]
  /\ resp = [e \in Exchanges |-> NoResponse]
  /\ modResp = [e \in Exchanges |-> NoResponse]
  /\ err = [e \in Exchanges |-> NoErr]
  /\ delivered = [e \in Exchanges |-> NoResponse]
  /\ netCalls = [e \in Exchanges |-> <<>>]
  /\ netFailed = [e \in Exchanges |-> FALSE]
  /\ saveFaults = [e \in Exchanges |-> 0]
  /\ recorded = [e \in Exchanges |-> {}]
  /\ stages = [e \in Exchanges |-> <<>>]
  /\ created = <<>>
  /\ lastUpdate = NoConfig
  /\ cfgResult = Outcome(None, NoErr, FindOne(<<>>))

\* the traffic query at rest
QueryIdle ==
  /\ qColl = <<>>
  /\ qFilter = NoFilter
  /\ qPages = <<>>
  /\ qErr = NoErr

\* the operation called, before any call
NoCall == [op |-> None, via |-> None]

\* no modifier operation called
ModifierIdle ==
  /\ mHeap = <<>>
  /\ mArg = Undefined
  /\ mCall = NoCall
  /\ mResult = Undefined
  /\ mErr = NoErr
  /\ mGiven = Undefined
  /\ mReturned = Undefined
  /\ mMutations = 0

\* the Userscript collection empty, no script operation called
ScriptsIdle ==
  /\ scripts = {}
  /\ nextId = 1
  /\ sOp = [c \in Clients |-> NoOp]
  /\ sOut = NoOutcome
  /\ submitted = [i \in {} |-> NoScriptData]

\* req.body of POST /scripts/:id/execute, the context of the invocation
Context0 == [value |-> 41]

\* the caller holds its context object, executeScript not called yet
SandboxIdle ==
  /\ xContext = Context0
  /\ xRuns = <<>>

\* the app listens, no request received yet
AppIdle ==
  /\ aReq = [path |-> None, auth |-> None, pc |-> "idle", approved |-> FALSE,
              core |-> {}, answeredBy |-> None, status |-> NoNumber]

\* scriptRoutes has matched no request yet
RouteIdle ==
  /\ rReq = [c \in Clients |->
               [route |-> None, valid |-> FALSE, service |-> None,
                pc |-> "idle", returned |-> None, writes |-> <<>>]]

\* GET /traffic not requested yet
TrafficIdle ==
  /\ tMatching = 0
  /\ tReq = [page |-> Undefined, limit |-> Undefined, pc |-> "idle",
              skip |-> Undefined, size |-> Undefined, returned |-> NoNumber,
              status |-> NoNumber]

\* config.js not loaded
ConfigIdle ==
  /\ startup = Undefined
  /\ config = Undefined
  /\ lastSet = [key |-> <<>>, value |-> Undefined, threw |-> FALSE,
                 before |-> Undefined]

\* connectDatabase() has connected at startup
DbIdle ==
  /\ dbConnected = TRUE
  /\ dbReachable = TRUE
  /\ dbHandler = FALSE
  /\ dbTimer = FALSE
  /\ dbTimerCall = FALSE
  /\ dbFailed = 0

Init == ProxyInit /\ QueryIdle /\ ModifierIdle /\ ScriptsIdle /\ SandboxIdle /\ AppIdle /\ RouteIdle /\ TrafficIdle /\ ConfigIdle /\ DbIdle

(***************************************************************************)
(* proxyMiddleware, one action per continuation between two awaits         *)
(***************************************************************************)
\* next(err): the exchange ends in the error handler, nothing is sent by
\* the middleware
Fail(e, error) ==
  /\ err' = [err EXCEPT ![e] = error]
  /\ pc' = [pc EXCEPT ![e] = "failed"]

\* lines 10-21: validate the request, call modifyProxyRequest
\* (exchanges are numbered in the order in which they arrive)
Receive(e, r) ==
  /\ pc[e] = "idle"
  /\ IF e = 1 THEN TRUE ELSE pc[e - 1] # "idle"
  /\ req' = [req EXCEPT ![e] = r]
  /\ IF r.wellFormed
       THEN /\ modReq' = [modReq EXCEPT ![e] = ModifyProxyRequest(r)]
            /\ pc' = [pc EXCEPT ![e] = "modifyRequest"]
            /\ err' = err
       ELSE /\ Fail(e, InvalidRequestDataError)
            /\ modReq' = modReq
  /\ UNCHANGED <<store, resp, modResp, delivered, netCalls, netFailed,
                 saveFaults, recorded, stages, created, cfgVars, nonProxyVars>>

\* line 23 and forwardProxyRequest lines 156-163: the request is modified,
\* forwardProxyRequest issues the network call
ModifyRequestDone(e) ==
  /\ pc[e] = "modifyRequest"
  /\ stages' = [stages EXCEPT ![e] = Append(@, "modifyRequest")]
  /\ netCalls' = [netCalls EXCEPT ![e] = Append(@, ForwardTarget)]
  /\ pc' = [pc EXCEPT ![e] = "forward"]
  /\ UNCHANGED <<store, req, modReq, resp, modResp, err, delivered,
                 netFailed, saveFaults, recorded, created, cfgVars, nonProxyVars>>

\* forwardProxyRequest lines 165-169: the target answered; transform the
\* response and call logProxyTraffic, which issues save()
TargetReplies(e, status) ==
  /\ pc[e] = "forward"
  /\ resp' = [resp EXCEPT ![e] = TransformRequestResponse(
                 [statusCode |-> status, headers |-> "rh", body |-> "rb",
                  raw |-> TRUE])]
  /\ pc' = [pc EXCEPT ![e] = "forwardLog"]
  /\ UNCHANGED <<store, req, modReq, modResp, err, delivered, netCalls,
                 netFailed, saveFaults, recorded, stages,
                 created, cfgVars, nonProxyVars>>

\* a forwardProxyRequest whose catch calls makeHttpRequest again
TargetFailsRetries(e) ==
  /\ pc[e] = "forward"
  /\ netFailed' = [netFailed EXCEPT ![e] = TRUE]
  /\ netCalls' = [netCalls EXCEPT ![e] = Append(@, ForwardTarget)]
  /\ UNCHANGED <<store, pc, req, modReq, resp, modResp, err, delivered,
                 saveFaults, recorded, stages, created, cfgVars, nonProxyVars>>

\* forwardProxyRequest lines 172-175: makeHttpRequest rejected
TargetFails(e) ==
  /\ pc[e] = "forward"
  /\ netFailed' = [netFailed EXCEPT ![e] = TRUE]
  /\ Fail(e, ForwardingError)
  /\ UNCHANGED <<store, req, modReq, resp, modResp, delivered, netCalls,
                 saveFaults, recorded, stages, created, cfgVars, nonProxyVars>>

\* logProxyTraffic lines 188-199 inside forwardProxyRequest, then
\* forwardProxyRequest line 171 and proxyMiddleware lines 26-30
ForwardLogSaved(e) ==
  /\ pc[e] = "forwardLog"
  /\ store' = Append(store, TrafficDoc(modReq[e], resp[e]))
  /\ created' = Append(created, TrafficDoc(modReq[e], resp[e]))
  /\ recorded' = [recorded EXCEPT ![e] = @ \cup {Len(store) + 1}]
  /\ stages' = [stages EXCEPT ![e] = Append(@, "forward")]
  /\ modResp' = [modResp EXCEPT ![e] = ModifyProxyResponse(resp[e])]
  /\ pc' = [pc EXCEPT ![e] = "modifyResponse"]
  /\ UNCHANGED <<req, modReq, resp, err, delivered, netCalls, netFailed,
                 saveFaults, cfgVars, nonProxyVars>>

\* logProxyTraffic lines 200-203 inside forwardProxyRequest: save() is
\* rejected, logProxyTraffic throws, the catch of forwardProxyRequest
\* (lines 172-175) replaces the error
ForwardLogFaults(e) ==
  /\ pc[e] = "forwardLog"
  /\ saveFaults' = [saveFaults EXCEPT ![e] = @ + 1]
  /\ Fail(e, ForwardingError)
  /\ UNCHANGED <<store, req, modReq, resp, modResp, delivered, netCalls,
                 netFailed, recorded, stages, created, cfgVars, nonProxyVars>>

\* a proxyMiddleware that sends the response before it records the exchange
ModifyResponseDoneSendsFirst(e) ==
  /\ pc[e] = "modifyResponse"
  /\ stages' = [stages EXCEPT ![e] = @ \o <<"modifyResponse", "deliver">>]
  /\ delivered' = [delivered EXCEPT ![e] = modResp[e]]
  /\ pc' = [pc EXCEPT ![e] = "record"]
  /\ UNCHANGED <<store, req, modReq, resp, modResp, err, netCalls,
                 netFailed, saveFaults, recorded, created, cfgVars, nonProxyVars>>

\* proxyMiddleware line 33: the response is modified, logProxyTraffic is
\* called with the modified request and response and issues save()
ModifyResponseDone(e) ==
  /\ pc[e] = "modifyResponse"
  /\ stages' = [stages EXCEPT ![e] = Append(@, "modifyResponse")]
  /\ pc' = [pc EXCEPT ![e] = "record"]
  /\ UNCHANGED <<store, req, modReq, resp, modResp, err, delivered,
                 netCalls, netFailed, saveFaults, recorded,
                 created, cfgVars, nonProxyVars>>

\* logProxyTraffic lines 188-199, then proxyMiddleware lines 34-41
RecordSaved(e) ==
  /\ pc[e] = "record"
  /\ store' = Append(store, TrafficDoc(modReq[e], modResp[e]))
  /\ created' = Append(created, TrafficDoc(modReq[e], modResp[e]))
  /\ recorded' = [recorded EXCEPT ![e] = @ \cup {Len(store) + 1}]
  /\ stages' = [stages EXCEPT ![e] = @ \o <<"record", "deliver">>]
  /\ delivered' = [delivered EXCEPT ![e] = modResp[e]]
  /\ pc' = [pc EXCEPT ![e] = "done"]
  /\ UNCHANGED <<req, modReq, resp, modResp, err, netCalls, netFailed,
                 saveFaults, cfgVars, nonProxyVars>>

\* logProxyTraffic lines 200-203, then proxyMiddleware lines 42-45
RecordFaults(e) ==
  /\ pc[e] = "record"
  /\ saveFaults' = [saveFaults EXCEPT ![e] = @ + 1]
  /\ Fail(e, LoggingError)
  /\ UNCHANGED <<store, req, modReq, resp, modResp, delivered, netCalls,
                 netFailed, recorded, stages, created, cfgVars, nonProxyVars>>

(***************************************************************************)
(* Proxy configuration                                                     *)
(***************************************************************************)
\* ProxyService.updateProxyConfig, the write accepted by the store
UpdateProxyConfig(c) ==
  /\ store' = FindOneAndUpdate(store, c)
  /\ created' = IF store = <<>> THEN <<FindOneAndUpdate(store, c)[1]>>
                ELSE created
  /\ lastUpdate' = c
  /\ cfgResult' = Outcome("update", NoErr, Nothing)
  /\ UNCHANGED <<exVars, nonProxyVars>>

\* ProxyService.updateProxyConfig, the write rejected by the store
UpdateProxyConfigFaults(c) ==
  /\ cfgResult' = Outcome("update", ConfigUpdateError, Nothing)
  /\ UNCHANGED <<store, created, lastUpdate, exVars, nonProxyVars>>

\* PUT /config: the validators of the route, then
\* ProxyController.updateProxyConfig, which answers 400 on validation errors
\* and calls the service otherwise
PutConfig(c) ==
  IF RouteConfigValid(c)
    THEN UpdateProxyConfig(c)
    ELSE /\ cfgResult' = Outcome("update", ValidationErrors, Nothing)
         /\ UNCHANGED <<store, created, lastUpdate, exVars, nonProxyVars>>

\* ProxyService.getProxyConfig
GetProxyConfig ==
  /\ cfgResult' = Outcome("get", NoErr, FindOne(store))
  /\ UNCHANGED <<store, created, lastUpdate, exVars, nonProxyVars>>

\* ProxyService.getProxyConfig, findOne rejected
GetProxyConfigFaults ==
  /\ cfgResult' = Outcome("get", ConfigFetchError, Nothing)
  /\ UNCHANGED <<store, created, lastUpdate, exVars, nonProxyVars>>

Next ==
  \/ \E e \in Exchanges, r \in Requests : Receive(e, r)
  \/ \E e \in Exchanges : ModifyRequestDone(e)
  \/ \E e \in Exchanges, status \in TargetStatus : TargetReplies(e, status)
  \/ \E e \in Exchanges : TargetFails(e)
  \/ \E e \in Exchanges : ForwardLogSaved(e)
  \/ \E e \in Exchanges : ForwardLogFaults(e)
  \/ \E e \in Exchanges : ModifyResponseDone(e)
  \/ \E e \in Exchanges : RecordSaved(e)
  \/ \E e \in Exchanges : RecordFaults(e)
  \/ \E c \in Configs : UpdateProxyConfig(c)
  \/ \E c \in Configs : UpdateProxyConfigFaults(c)
  \/ \E c \in Configs : PutConfig(c)
  \/ GetProxyConfig
  \/ GetProxyConfigFaults

Spec == Init /\ [][Next]_vars

(***************************************************************************)
(* Traffic query: one paginated query over an unchanged collection         *)
(***************************************************************************)
\* the collection the query runs on
QueryInit ==
  /\ ProxyInit /\ ModifierIdle /\ ScriptsIdle /\ SandboxIdle /\ AppIdle /\ RouteIdle /\ TrafficIdle /\ ConfigIdle /\ DbIdle
  /\ qColl \in QueryCollections
  /\ qFilter = NoFilter
  /\ qPages = <<>>
  /\ qErr = NoErr

\* the filters of the next call: any filters at first, then the same filters
\* with the next page
NextFilters ==
  IF qFilter = NoFilter THEN Filters
  ELSE IF qFilter.page + Len(qPages) <= MaxPages
         THEN {[qFilter EXCEPT !.page = qFilter.page + Len(qPages)]}
         ELSE {}

\* ProxyService.getProxyTraffic, the query answered
GetProxyTraffic(f, o) ==
  /\ qErr = NoErr
  /\ f \in NextFilters
  /\ o \in SortOrders(qColl, Selected(qColl, f))
  /\ qFilter' = IF qFilter = NoFilter THEN f ELSE qFilter
  /\ qPages' = Append(qPages, ProxyTraffic(qColl, f, o))
  /\ UNCHANGED <<qColl, qErr, nonQueryVars>>

\* ProxyService.getProxyTraffic, the query rejected by the store
GetProxyTrafficFaults(f) ==
  /\ qErr = NoErr
  /\ f \in NextFilters
  /\ qFilter' = IF qFilter = NoFilter THEN f ELSE qFilter
  /\ qErr' = TrafficFetchError
  /\ UNCHANGED <<qColl, qPages, nonQueryVars>>

QueryNext ==
  \/ \E f \in Filters :
       \E o \in SortOrders(qColl, Selected(qColl, f)) : GetProxyTraffic(f, o)
  \/ \E f \in Filters : GetProxyTrafficFaults(f)

SpecQuery == QueryInit /\ [][QueryNext]_vars

(***************************************************************************)
(* Traffic Modifier on heap objects: one call, then the caller goes on     *)
(* using the object it passed                                              *)
(***************************************************************************)
\* isIn(['GET', 'POST', 'PUT', 'DELETE', 'PATCH'])
RouteMethods ==
  { <<"G", "E", "T">>, <<"P", "O", "S", "T">>, <<"P", "U", "T">>,
    <<"D", "E", "L", "E", "T", "E">>, <<"P", "A", "T", "C", "H">> }
\* a string isURL() accepts and a string isJSON() accepts
ValidUrl == <<"h", ":", "/", "/", "a">>
JsonTexts == { <<"{", "}">> }

HeaderShapes == {"absent", "map", "string"}
BodyShapes ==
  { [kind |-> k, depth |-> 0] : k \in {"absent", "string", "array"} }
    \cup { [kind |-> "object", depth |-> d] : d \in 1..MaxNesting }

\* the headers of an input: absent, a map, or a string
HeadersPart(shape, base) ==
  CASE shape = "map" ->
         [objs |-> <<Obj("object", "content-type" :> Str(<<"j">>))>>,
          val |-> Ref(base + 1), has |-> TRUE]
    [] shape = "string" ->
         [objs |-> <<>>, val |-> Str(<<"x">>), has |-> TRUE]
    [] OTHER -> [objs |-> <<>>, val |-> Undefined, has |-> FALSE]

\* the body of an input: absent, a string, an array, or an object whose
\* `data` holds a string (depth 1) or an object of depth one less
BodyPart(shape, base) ==
  CASE shape.kind = "string" ->
         [objs |-> <<>>, val |-> Str(<<"{", "}">>), has |-> TRUE]
    [] shape.kind = "array" ->
         [objs |-> <<Obj("array", "0" :> Str(<<"a">>))>>,
          val |-> Ref(base + 1), has |-> TRUE]
    [] shape.kind = "object" ->
         [objs |-> [i \in 1..shape.depth |->
                      Obj("object",
                          "data" :> (IF i = 1 THEN Str(<<"b">>)
                                     ELSE Ref(base + i - 1)))],
          val |-> Ref(base + shape.depth), has |-> TRUE]
    [] OTHER -> [objs |-> <<>>, val |-> Undefined, has |-> FALSE]

Field(k, has, val) == IF has THEN k :> val ELSE <<>>

\* a request or response object with its headers and body, laid out on a heap
Input(fields, hs, bs) ==
  LET h == HeadersPart(hs, 0)
      b == BodyPart(bs, Len(h.objs))
      parts == h.objs \o b.objs
      root == Obj("object",
                  fields @@ Field("headers", h.has, h.val)
                         @@ Field("body", b.has, b.val))
  IN  [heap |-> Append(parts, root), arg |-> Ref(Len(parts) + 1)]

RequestFields ==
  { ("method" :> Str(m)) @@ Field("url", u, Str(ValidUrl)) :
      m \in { <<"G", "E", "T">>, <<"H", "E", "A", "D">> }, u \in BOOLEAN }
ResponseFields == { "statusCode" :> Num(n) : n \in {200, 99, 600} }

\* what the callers hand to the operations: request objects, response
\* objects, and null
Inputs ==
  { Input(f, hs, bs) :
      f \in RequestFields \cup ResponseFields,
      hs \in HeaderShapes, bs \in BodyShapes }
    \cup { [heap |-> <<>>, arg |-> Null] }

\* express-validator: notEmpty(), isIn(), isURL(), isObject(), isJSON(),
\* isInt({min, max}); a standard validator runs on each element of an array
NotEmpty(val) == val.t # "undefined" /\ val.t # "null" /\ val # Str(<<>>)
IsIn(val, strings) == val.t = "string" /\ val.v \in strings
IsURL(val) == val.t = "string" /\ val.v = ValidUrl
IsObject(heap, val) == val.t = "ref" /\ heap[val.v].kind = "object"
IsJSON(heap, val) ==
  LET IsJSONText(x) == x.t = "string" /\ x.v \in JsonTexts
  IN  IF val.t = "ref" /\ heap[val.v].kind = "array"
        THEN \A k \in DOMAIN heap[val.v].props :
               IsJSONText(heap[val.v].props[k])
        ELSE IsJSONText(val)
IsInt(val, min, max) == val.t = "number" /\ val.v >= min /\ val.v <= max

\* the validators of POST /modify/request
RouteRequestValid(heap, data) ==
  /\ NotEmpty(Get(heap, data, "method"))
  /\ IsIn(Get(heap, data, "method"), RouteMethods)
  /\ NotEmpty(Get(heap, data, "url"))
  /\ IsURL(Get(heap, data, "url"))
  /\ NotEmpty(Get(heap, data, "headers"))
  /\ IsObject(heap, Get(heap, data, "headers"))
  /\ Get(heap, data, "body") # Undefined => IsJSON(heap, Get(heap, data, "body"))

\* the validators of POST /modify/response and of POST /inject
RouteResponseValid(heap, data) ==
  /\ NotEmpty(Get(heap, data, "statusCode"))
  /\ IsInt(Get(heap, data, "statusCode"), 100, 599)
  /\ NotEmpty(Get(heap, data, "headers"))
  /\ IsObject(heap, Get(heap, data, "headers"))
  /\ Get(heap, data, "body") # Undefined => IsJSON(heap, Get(heap, data, "body"))

ModifierInit ==
  /\ ProxyInit /\ QueryIdle /\ ScriptsIdle /\ SandboxIdle /\ AppIdle /\ RouteIdle /\ TrafficIdle /\ ConfigIdle /\ DbIdle
  /\ \E i \in Inputs : mHeap = i.heap /\ mArg = i.arg
  /\ mCall = NoCall
  /\ mResult = Undefined
  /\ mErr = NoErr
  /\ mGiven = Undefined
  /\ mReturned = Undefined
  /\ mMutations = 0

\* the service method called and returned
Called(op, via) ==
  LET r == ServiceCall(op, mHeap, mArg)
  IN  /\ mCall = NoCall
      /\ mCall' = [op |-> op, via |-> via]
      /\ mGiven' = DeepValue(mHeap, mArg)
      /\ mHeap' = r.heap
      /\ mResult' = r.value
      /\ mErr' = r.error
      /\ mReturned' = DeepValue(r.heap, r.value)
      /\ UNCHANGED <<mArg, mMutations, nonModVars>>

\* the controller answers 400 with the validation errors
Rejected(op) ==
  /\ mCall = NoCall
  /\ mCall' = [op |-> op, via |-> "route"]
  /\ mGiven' = DeepValue(mHeap, mArg)
  /\ mErr' = ValidationErrors
  /\ UNCHANGED <<mHeap, mArg, mResult, mReturned, mMutations, nonModVars>>

\* ProxyService.modifyProxyRequest called directly (proxyMiddleware line 16)
ServiceModifyRequest == Called("modifyRequest", "service")
\* ProxyService.modifyProxyResponse called directly (proxyMiddleware line 26)
ServiceModifyResponse == Called("modifyResponse", "service")
\* ProxyService.injectCustomResponse called directly
ServiceInject == Called("inject", "service")

\* POST /modify/request: validators, ProxyController.modifyProxyRequest
PostModifyRequest ==
  /\ mArg.t = "ref"
  /\ IF RouteRequestValid(mHeap, mArg)
       THEN Called("modifyRequest", "route") ELSE Rejected("modifyRequest")

\* POST /modify/response: validators, ProxyController.modifyProxyResponse
PostModifyResponse ==
  /\ mArg.t = "ref"
  /\ IF RouteResponseValid(mHeap, mArg)
       THEN Called("modifyResponse", "route") ELSE Rejected("modifyResponse")

\* POST /inject: validators, ProxyController.injectCustomResponse
PostInject ==
  /\ mArg.t = "ref"
  /\ IF RouteResponseValid(mHeap, mArg)
       THEN Called("inject", "route") ELSE Rejected("inject")

\* after the call the caller writes to a property of an object it passed
MutateInput(a, k) ==
  /\ mCall # NoCall
  /\ mMutations < MaxMutations
  /\ a \in Reachable(mHeap, mArg)
  /\ k \in DOMAIN mHeap[a].props
  /\ mHeap' = [mHeap EXCEPT ![a].props[k] = Str(<<"m">>)]
  /\ mMutations' = mMutations + 1
  /\ UNCHANGED <<mArg, mCall, mResult, mErr, mGiven, mReturned, nonModVars>>

ModifierNext ==
  \/ ServiceModifyRequest
  \/ ServiceModifyResponse
  \/ ServiceInject
  \/ PostModifyRequest
  \/ PostModifyResponse
  \/ PostInject
  \/ \E a \in DOMAIN mHeap : \E k \in {"method", "url", "statusCode",
                                       "headers", "body", "content-type",
                                       "data", "0"} : MutateInput(a, k)

SpecModifier == ModifierInit /\ [][ModifierNext]_vars

(***************************************************************************)
(* Script Registry: a createScript call is issued and later answered by    *)
(* the store, so that the creates of several clients overlap; every other  *)
(* method makes one store call, which the store answers atomically         *)
(***************************************************************************)
\* the call ends in its catch block: nothing is written
ScriptFails(op, id, cause, raced) ==
  /\ sOut' = ScriptOutcome(op, id, cause, ScriptFailure(op, cause), NoScript,
                           raced)
  /\ UNCHANGED <<scripts, nextId, submitted>>

\* createScript up to `await newScript.save()`
CreateScript(c, data) ==
  /\ sOp[c] = NoOp
  /\ nextId + Cardinality({ k \in Clients : sOp[k].op = "create" })
       <= MaxScripts
  /\ sOp' = [sOp EXCEPT ![c] =
               Op("create", data, SchemaCast(SanitizeScript(data)), nextId)]
  /\ UNCHANGED <<scripts, nextId, sOut, submitted, nonScriptVars>>

\* save() answered: validation, then the insert under the unique index
CreateSaved(c) ==
  /\ sOp[c].op = "create"
  /\ sOp' = [sOp EXCEPT ![c] = NoOp]
  /\ LET data == sOp[c].data
         raced == nextId > sOp[c].since
     IN  IF ~SaveValid(data)
           THEN ScriptFails("create", 0, "invalid", raced)
         ELSE IF ~UniqueIndexAllows(scripts, nextId, data.name)
           THEN ScriptFails("create", 0, "duplicate", raced)
         ELSE /\ scripts' = scripts \cup {ScriptDoc(nextId, data)}
              /\ nextId' = nextId + 1
              /\ submitted' = (nextId :> sOp[c].raw) @@ submitted
              /\ sOut' = ScriptOutcome("create", nextId, None, NoErr,
                                       ScriptDoc(nextId, data), raced)
  /\ UNCHANGED nonScriptVars

\* updateScript: sanitizeScript, then findByIdAndUpdate: the setters and the
\* update validators, then the update under the unique index; null when no
\* document has the id
UpdateScript(id, updates) ==
  /\ LET data == SchemaCast(SanitizeScript(updates))
         old == FindById(scripts, id)
     IN  IF ~UpdateValid(data)
           THEN ScriptFails("update", id, "invalid", FALSE)
         ELSE IF old = NoScript
           THEN ScriptFails("update", id, "notfound", FALSE)
         ELSE IF ~UniqueIndexAllows(scripts, id, ApplyUpdate(old, data).name)
           THEN ScriptFails("update", id, "duplicate", FALSE)
         ELSE /\ scripts' = (scripts \ {old}) \cup {ApplyUpdate(old, data)}
              /\ submitted' = [i \in DOMAIN submitted \ {id} |-> submitted[i]]
              /\ sOut' = ScriptOutcome("update", id, None, NoErr, NoScript,
                                       FALSE)
              /\ UNCHANGED nextId
  /\ UNCHANGED <<sOp, nonScriptVars>>

\* save() rejected by the store
CreateFaults(c) ==
  /\ sOp[c].op = "create"
  /\ sOp' = [sOp EXCEPT ![c] = NoOp]
  /\ ScriptFails("create", 0, "fault", nextId > sOp[c].since)
  /\ UNCHANGED nonScriptVars

\* getScriptById: the not-found error is thrown inside the try block and
\* replaced by the catch block
GetScriptById(id) ==
  /\ LET script == FindById(scripts, id)
     IN  IF script = NoScript
           THEN sOut' = ScriptOutcome("get", id, "notfound",
                                      ScriptFailure("get", "notfound"),
                                      NoScript, FALSE)
           ELSE sOut' = ScriptOutcome("get", id, None, NoErr, script, FALSE)
  /\ UNCHANGED <<scripts, nextId, sOp, submitted, nonScriptVars>>

\* a delete that marks the script deleted and keeps the document
DeleteScriptKeeps(id) ==
  /\ LET deleted == FindById(scripts, id)
     IN  IF deleted = NoScript
           THEN ScriptFails("delete", id, "notfound", FALSE)
           ELSE /\ sOut' = ScriptOutcome("delete", id, None, NoErr, NoScript,
                                         FALSE)
                /\ UNCHANGED <<scripts, nextId, submitted>>
  /\ UNCHANGED <<sOp, nonScriptVars>>

\* deleteScript
DeleteScript(id) ==
  /\ LET deleted == FindById(scripts, id)
     IN  IF deleted = NoScript
           THEN ScriptFails("delete", id, "notfound", FALSE)
           ELSE /\ scripts' = scripts \ {deleted}
                /\ submitted' = [i \in DOMAIN submitted \ {id} |-> submitted[i]]
                /\ sOut' = ScriptOutcome("delete", id, None, NoErr, NoScript,
                                         FALSE)
                /\ UNCHANGED nextId
  /\ UNCHANGED <<sOp, nonScriptVars>>

\* executeScript: getScriptById, then executeInSandbox, which returns or
\* throws; every error ends in the catch block of executeScript
ExecuteScript(id, sandboxThrows) ==
  /\ LET script == FindById(scripts, id)
     IN  IF script = NoScript
           THEN ScriptFails("execute", id, "notfound", FALSE)
         ELSE IF sandboxThrows
           THEN ScriptFails("execute", id, "execution", FALSE)
         ELSE ScriptFails("execute", id, None, FALSE)
  /\ UNCHANGED <<sOp, nonScriptVars>>

\* findById, findByIdAndUpdate or findByIdAndDelete rejected by the store
StoreFaults(op, id) ==
  /\ ScriptFails(op, id, "fault", FALSE)
  /\ UNCHANGED <<sOp, nonScriptVars>>

ScriptsNext ==
  \/ \E c \in Clients : \E data \in CreateInputs : CreateScript(c, data)
  \/ \E c \in Clients : CreateSaved(c)
  \/ \E c \in Clients : CreateFaults(c)
  \/ \E id \in ScriptIds : \E updates \in UpdateInputs :
       UpdateScript(id, updates)
  \/ \E id \in ScriptIds : GetScriptById(id)
  \/ \E id \in ScriptIds : DeleteScript(id)
  \/ \E id \in ScriptIds : \E sandboxThrows \in BOOLEAN :
       ExecuteScript(id, sandboxThrows)
  \/ \E op \in {"get", "update", "delete", "execute"} : \E id \in ScriptIds :
       StoreFaults(op, id)

ScriptsInit == ProxyInit /\ QueryIdle /\ ModifierIdle /\ ScriptsIdle /\ SandboxIdle /\ AppIdle /\ RouteIdle /\ TrafficIdle /\ ConfigIdle /\ DbIdle

SpecScripts == ScriptsInit /\ [][ScriptsNext]_vars

(***************************************************************************)
(* Properties                                                              *)
(***************************************************************************)
IsPrefix(s, t) ==
  /\ Len(s) <= Len(t)
  /\ \A i \in 1..Len(s) : s[i] = t[i]

PipelineOrder ==
  <<"modifyRequest", "forward", "modifyResponse", "record", "deliver">>

\* the origin tag of a stored document, None when the document has none
Origin(doc) == IF "origin" \in DOMAIN doc THEN doc.origin ELSE None

C2_ExactlyOneTaggedRecord ==
  \A e \in Exchanges :
    pc[e] = "done" =>
      /\ Cardinality(recorded[e]) = 1
      /\ \A i \in recorded[e] : Origin(store[i]) = "forwarded"

\* C3: a request for the injection endpoint (POST /inject) never causes a
\* network call to the target.
C3_InjectNeverForwards ==
  \A e \in Exchanges :
    req[e].url = "/inject" => netCalls[e] = <<>>

\* C4: each forwarded exchange issues exactly one call, and once an
\* updateProxyConfig(c) has succeeded every call issued afterwards is
\* addressed to c's targetHostname and targetPort.
C4_ForwardsToConfiguredTarget ==
  [][\A e \in Exchanges :
       /\ Len(netCalls'[e]) <= 1
       /\ (Len(netCalls'[e]) > Len(netCalls[e]) /\ lastUpdate # NoConfig) =>
            netCalls'[e][Len(netCalls'[e])] =
              [host |-> lastUpdate.targetHostname,
               port |-> lastUpdate.targetPort]]_vars

\* C5: when the network call to the target fails, the exchange ends with the
\* forwarding error, nothing is delivered or recorded for it, and no second
\* network call is made for it; no exchange ever makes more than one call.
C5_ForwardFailureIsTerminal ==
  \A e \in Exchanges :
    /\ Len(netCalls[e]) <= 1
    /\ netFailed[e] =>
         /\ pc[e] = "failed"
         /\ err[e] = ForwardingError
         /\ delivered[e] = NoResponse
         /\ recorded[e] = {}

\* the network call of an exchange failed
C5_Witness ==
  \E e \in Exchanges : netFailed[e] /\ Len(netCalls[e]) = 1

\* C6: an exchange whose recording met a storage fault after the target
\* answered still delivers its modified response to the client.
C6_RecordingFaultStillDelivers ==
  \A e \in Exchanges :
    (saveFaults[e] > 0 /\ resp[e] # NoResponse) =>
      (delivered[e] # NoResponse /\ delivered[e] = ModifyProxyResponse(resp[e]))

\* C7: a storage fault while recording is reported as the recording error,
\* and the forwarding error is reported only when the network call failed.
C7_FaultsToldApart ==
  \A e \in Exchanges :
    /\ saveFaults[e] > 0 => err[e] = LoggingError
    /\ err[e] = ForwardingError => netFailed[e]

\* C8: every traffic record ever created is still in the store, with every
\* field as it was created.
C8_RecordsImmutable ==
  /\ Len(created) <= Len(store)
  /\ \A i \in DOMAIN created :
       IsTrafficRecord(created[i]) => store[i] = created[i]

\* C9: there is one proxy configuration; getProxyConfig returns the host,
\* port and modification maps of the last successful update and never a
\* traffic record.
C9_GetReturnsLastUpdate ==
  /\ Cardinality({i \in DOMAIN store : HasConfig(store[i])}) <= 1
  /\ (cfgResult.op = "get" /\ cfgResult.error = NoErr) =>
       /\ ~IsTrafficRecord(cfgResult.doc)
       /\ lastUpdate # NoConfig =>
            /\ ~cfgResult.isNull
            /\ cfgResult.doc.targetHostname = lastUpdate.targetHostname
            /\ cfgResult.doc.targetPort = lastUpdate.targetPort
            /\ cfgResult.doc.requestModifications =
                 lastUpdate.requestModifications
            /\ cfgResult.doc.responseModifications =
                 lastUpdate.responseModifications

\* C10: the stored proxy configuration has a hostname of the hostname
\* grammar and a port in 1..65535 in every reachable state (an update that
\* violates either is rejected before anything is written).
C10_StoredConfigValid ==
  \A i \in DOMAIN store :
    HasConfig(store[i]) =>
      /\ SchemaHostnameValid(store[i].targetHostname)
      /\ SchemaPortValid(store[i].targetPort)

(***************************************************************************)
(* Traffic query properties                                                *)
(***************************************************************************)
\* the filters of the k-th call of the paginated query
PageFilter(k) == [qFilter EXCEPT !.page = qFilter.page + k - 1]

\* sub occurs in str, letters compared without regard to case
ContainsCI(sub, str) ==
  \E i \in 0..(Len(str) - Len(sub)) :
    \A k \in 1..Len(sub) : Fold(sub[k]) = Fold(str[i + k])

\* the positions of the traffic records of coll that the filters describe:
\* createdAt within [startDate, endDate], url containing the url filter,
\* method equal to the method filter
DescribedRecords(coll, f) ==
  { i \in DOMAIN coll :
      /\ IsTrafficRecord(coll[i])
      /\ coll[i].createdAt >= f.startDate
      /\ coll[i].createdAt <= f.endDate
      /\ f.targetUrl # <<>> => ContainsCI(f.targetUrl, coll[i].url)
      /\ f.method # None => coll[i].method = f.method }

\* the positions a page returns, in order
Positions(page) == [k \in DOMAIN page |-> page[k].pos]

\* C11: every answer of the traffic query is the slice (page-1)*limit, limit
\* of a newest-first ordering of exactly the traffic records whose createdAt
\* lies in [startDate, endDate] and which satisfy the url and method filters
\* given; no other document is returned.
C11_QueryReturnsExactlyTheRecords ==
  \A k \in DOMAIN qPages :
    LET f == PageFilter(k)
    IN  \E o \in SortOrders(qColl, DescribedRecords(qColl, f)) :
          Positions(qPages[k]) = SkipLimit(o, (f.page - 1) * f.limit, f.limit)

\* C12: when a url filter is given, a traffic record in the date range (and
\* of the method asked for) is returned exactly when its stored url contains
\* the filter string, compared without regard to case; when a method filter
\* is given, every returned document has that method.
C12_UrlFilterIsSubstringMatch ==
  \A k \in DOMAIN qPages :
    LET f == PageFilter(k)
        got == { qPages[k][j].pos : j \in DOMAIN qPages[k] }
    IN  /\ f.method # None => \A i \in got : qColl[i].method = f.method
        /\ f.targetUrl # <<>> =>
             /\ \A i \in got : /\ IsTrafficRecord(qColl[i])
                               /\ ContainsCI(f.targetUrl, qColl[i].url)
             /\ (f.page = 1 /\ Len(qPages[k]) < f.limit) =>
                  DescribedRecords(qColl, f) \subseteq got

\* newest first, documents of equal createdAt in insertion order
RECURSIVE InsertionOrder(_, _)
InsertionOrder(coll, sel) ==
  IF sel = {} THEN <<>>
  ELSE LET first == CHOOSE i \in sel :
                      \A j \in sel :
                        \/ coll[i].createdAt > coll[j].createdAt
                        \/ coll[i].createdAt = coll[j].createdAt /\ i <= j
       IN  <<first>> \o InsertionOrder(coll, sel \ {first})

RECURSIVE Concat(_)
Concat(pages) ==
  IF pages = <<>> THEN <<>> ELSE Head(pages) \o Concat(Tail(pages))

\* C13: the selected documents are returned newest first, documents of equal
\* createdAt in insertion order; so pages 1, 2, ... of one query with a fixed
\* limit over an unchanged collection share no document and their
\* concatenation is the beginning of that ordered result.
C13_PagesPartitionTheResult ==
  (qFilter # NoFilter /\ qFilter.page = 1) =>
    LET all == Concat([k \in DOMAIN qPages |-> Positions(qPages[k])])
    IN  /\ \A i, j \in DOMAIN all : i # j => all[i] # all[j]
        /\ IsPrefix(all, InsertionOrder(qColl, Selected(qColl, qFilter)))

(***************************************************************************)
(* Traffic Modifier properties                                             *)
(***************************************************************************)
\* the property of a deep value, Undefined when it has none
DeepGet(d, key) ==
  IF d.t = "object"
    THEN IF key \in DOMAIN d.props THEN d.props[key] ELSE Undefined
    ELSE Undefined

\* a deep value that is a plain object (a map)
IsMap(d) == IF d.t = "object" THEN d.kind = "object" ELSE FALSE

\* the failure is an invalid-input failure, thrown by the service or
\* answered by the route's validation
IsInvalidInput(e) == e \in {InvalidRequestError, InvalidResponseError,
                            ValidationErrors}

\* C14: after modifyRequest has returned, no object is reachable from both
\* its input and its output, at any nesting depth, so writing to the input
\* leaves the output as it was returned.
C14_OutputSharesNothingWithInput ==
  (mCall.op = "modifyRequest" /\ mErr = NoErr) =>
    /\ Reachable(mHeap, mResult) \cap Reachable(mHeap, mArg) = {}
    /\ DeepValue(mHeap, mResult) = mReturned

\* C15: modifyRequest fails with an invalid-input error when the method is
\* not one of GET, POST, PUT, DELETE, PATCH, when the url is missing or when
\* the headers are not a map; modifyResponse and injectResponse fail with it
\* when the status code is outside 100..599.
C15_InvalidShapesRejected ==
  /\ ( /\ mCall.op = "modifyRequest"
       /\ \/ ~IsIn(DeepGet(mGiven, "method"), RouteMethods)
          \/ DeepGet(mGiven, "url") = Undefined
          \/ ~IsMap(DeepGet(mGiven, "headers")) )
       => IsInvalidInput(mErr)
  /\ ( /\ mCall.op \in {"modifyResponse", "inject"}
       /\ ~IsInt(DeepGet(mGiven, "statusCode"), 100, 599) )
       => IsInvalidInput(mErr)

\* C16: injectResponse on a valid response specification (status code in
\* 100..599, headers a map) succeeds and returns the specification verbatim,
\* whether its body is absent, a string, an array or an object.
C16_InjectReturnsSpecVerbatim ==
  ( /\ mCall.op = "inject"
    /\ IsInt(DeepGet(mGiven, "statusCode"), 100, 599)
    /\ IsMap(DeepGet(mGiven, "headers")) )
    => (mErr = NoErr /\ mReturned = mGiven)

(***************************************************************************)
(* Script Registry properties                                              *)
(***************************************************************************)
\* C17: under every interleaving of create, update and delete calls, no two
\* stored scripts have the same name and every stored name is a non-empty
\* string of letters, digits, underscores and hyphens; in particular two
\* creates racing on one name never both succeed.
C17_NamesUniqueAndWellFormed ==
  /\ \A d1, d2 \in scripts : d1.name = d2.name => d1.id = d2.id
  /\ \A d \in scripts :
       /\ d.name.t = "string"
       /\ d.name.v # <<>>
       /\ \A i \in 1..Len(d.name.v) : d.name.v[i] \in NameChars

\* a create lost the race: while it was in flight another create inserted a
\* document of the same name, and the store rejected it as a duplicate
C17_Witness ==
  /\ sOut.op = "create"
  /\ sOut.cause = "duplicate"
  /\ sOut.raced
  /\ scripts # {}

\* C18: a create whose name is taken fails with an error that tells the name
\* collision from an invalid-input failure, and leaves the stored scripts as
\* they were.
C18_DuplicateNameToldApart ==
  [][ (\E c \in Clients : sOp[c].op = "create" /\ sOp'[c] = NoOp
                          /\ sOut'.cause = "duplicate")
        => /\ scripts' = scripts
           /\ sOut'.error # NoErr
           /\ sOut'.error # ScriptFailure("create", "invalid") ]_vars

\* C19: a get of the id a create returned yields exactly the name, the
\* description and the code that were submitted (for a valid name, the script
\* neither updated nor deleted in between).
C19_CreateGetRoundTrip ==
  ( /\ sOut.op = "get"
    /\ sOut.cause = None
    /\ sOut.id \in DOMAIN submitted
    /\ NameValidator(submitted[sOut.id].name) )
    => ScriptData(sOut.doc.name, sOut.doc.description, sOut.doc.content)
         = submitted[sOut.id]

\* C20: get, update, delete and execute on an id no script has fail with an
\* error that tells the missing script from a storage fault and from an
\* execution failure, and leave the registry unchanged.
C20_NotFoundToldApart ==
  [][ sOut'.cause = "notfound"
        => /\ scripts' = scripts
           /\ sOut'.error # NoErr
           /\ sOut'.error # ScriptFailure(sOut'.op, "fault")
           /\ sOut'.error # ScriptFailure(sOut'.op, "execution") ]_vars

\* the ids of the scripts that were created and are stored no more: _ids are
\* handed out in order and never reused
Deleted(coll, next) == { i \in 1..(next - 1) : FindById(coll, i) = NoScript }

SandboxTimeout == 5000

\* script.content of the userscript found by getScriptById
ScriptCodes ==
  { "value + 1", "value = value + 1", "throw new Error()",
    "while (true) {}", "value = 0; while (true) {}",
    "new Promise(() => {})" }

\* vm.runInContext(scriptContent, sandbox, {timeout}): how the script ends,
\* its completion value, and the properties of the sandbox object afterwards
RunInContext(scriptContent, sandbox) ==
  CASE scriptContent = "value + 1" ->
         [ends |-> "returns", value |-> sandbox.value + 1, sandbox |-> sandbox]
    [] scriptContent = "value = value + 1" ->
         [ends |-> "returns", value |-> sandbox.value + 1,
          sandbox |-> [sandbox EXCEPT !.value = @ + 1]]
    [] scriptContent = "throw new Error()" ->
         [ends |-> "throws", value |-> NoNumber, sandbox |-> sandbox]
    [] scriptContent = "while (true) {}" ->
         [ends |-> "loops", value |-> NoNumber, sandbox |-> sandbox]
    [] scriptContent = "value = 0; while (true) {}" ->
         [ends |-> "loops", value |-> NoNumber,
          sandbox |-> [sandbox EXCEPT !.value = 0]]
    [] scriptContent = "new Promise(() => {})" ->
         [ends |-> "pending", value |-> NoNumber, sandbox |-> sandbox]

\* an invocation of executeScript: the script, the context as submitted,
\* its state, the time vm.runInContext took, what executeScript returned
\* or threw, and the caller's context object when it did
Invocation(code, given, state, elapsed, result, error, after) ==
  [code |-> code, given |-> given, state |-> state, elapsed |-> elapsed,
   result |-> result, error |-> error, after |-> after]

Terminal == {"Succeeded", "TimedOut", "Faulted"}

\* the invocation vm.runInContext is running: the script runs on the event
\* loop, nothing else does until it ends
Running == { i \in DOMAIN xRuns : xRuns[i].state = "Running" }

Ends(i) == RunInContext(xRuns[i].code, xContext)

\* executeScript(id, context), lines 117-124 and 138-143: the userscript is
\* fetched and vm.createContext(context) makes the caller's object the
\* script's global object.  The caller passes the object it passed before,
\* or a new one.
ExecuteInSandbox(code, fresh) ==
  /\ Running = {}
  /\ Len(xRuns) < MaxInvocations
  /\ xContext' = IF fresh THEN Context0 ELSE xContext
  /\ xRuns' = Append(xRuns,
       Invocation(code, xContext', "Running", 0, NoNumber, NoErr, xContext'))
  /\ UNCHANGED nonSandboxVars

\* lines 144-148 and 124-125: the script ran to completion, its value is
\* not a promise, executeScript returns it
ScriptReturns ==
  \E i \in Running :
    /\ Ends(i).ends = "returns"
    /\ xContext' = Ends(i).sandbox
    /\ xRuns' = [xRuns EXCEPT ![i] =
         Invocation(@.code, @.given, "Succeeded", 0, Ends(i).value, NoErr,
                    xContext')]
    /\ UNCHANGED nonSandboxVars

\* lines 149-152 and 126-128: the script threw; executeInSandbox throws
\* ScriptExecutionError, executeScript catches it and throws its own
ScriptThrows ==
  \E i \in Running :
    /\ Ends(i).ends = "throws"
    /\ xContext' = Ends(i).sandbox
    /\ xRuns' = [xRuns EXCEPT ![i] =
         Invocation(@.code, @.given, "Faulted", 0, NoNumber,
                    ScriptFailure("execute", "fault"), xContext')]
    /\ UNCHANGED nonSandboxVars

\* line 145: the script is still running after SandboxTimeout ms;
\* vm.runInContext throws, and lines 149-152 and 126-128 handle that as
\* they handle any other error
TimeoutFires ==
  \E i \in Running :
    /\ Ends(i).ends = "loops"
    /\ xContext' = Ends(i).sandbox
    /\ xRuns' = [xRuns EXCEPT ![i] =
         Invocation(@.code, @.given, "TimedOut", SandboxTimeout, NoNumber,
                    ScriptFailure("execute", "timeout"), xContext')]
    /\ UNCHANGED nonSandboxVars

\* line 144: the script ran to completion and its value is a promise that
\* nothing settles; vm.runInContext has returned, its timeout is over, and
\* the await never resumes
AwaitsPromise ==
  \E i \in Running :
    /\ Ends(i).ends = "pending"
    /\ xContext' = Ends(i).sandbox
    /\ xRuns' = [xRuns EXCEPT ![i].state = "Awaiting"]
    /\ UNCHANGED nonSandboxVars

SandboxInit ==
  ProxyInit /\ QueryIdle /\ ModifierIdle /\ ScriptsIdle /\ SandboxIdle /\ AppIdle /\ RouteIdle /\ TrafficIdle /\ ConfigIdle /\ DbIdle

SandboxNext ==
  \/ \E code \in ScriptCodes, fresh \in BOOLEAN : ExecuteInSandbox(code, fresh)
  \/ ScriptReturns
  \/ ScriptThrows
  \/ TimeoutFires
  \/ AwaitsPromise

SpecSandbox == SandboxInit /\ [][SandboxNext]_vars

\* the event loop runs the script that was started: vm.runInContext is a
\* synchronous call, so one of its endings happens
SpecSandboxFair ==
  SpecSandbox
    /\ WF_vars(ScriptReturns \/ ScriptThrows \/ TimeoutFires \/ AwaitsPromise)

(***************************************************************************)
(* The express app: the middleware chains of app.js                        *)
(*   src/unnamed/part_008 lines 51-58                                      *)
(*   src/src/middleware/proxyMiddleware.js lines 7-46 (proxyMiddleware)    *)
(*   src/src/middleware/proxyMiddleware.js lines 94-141 (authMiddleware)   *)
(*   src/src/middleware/errorHandler.js lines 20-50                        *)
(*                                                                         *)
(* app.use(path, a, b) runs a, and b only when a calls next().  next(err)  *)
(* skips to the error handling middleware.  req.route is set while a       *)
(* route of a router handles the request, and is undefined in a            *)
(* middleware mounted with app.use.                                        *)
(***************************************************************************)
\* the endpoints of proxyRoutes, scriptRoutes.js lines 297-455
ManagementPaths ==
  { "/api/proxy/config", "/api/proxy/traffic", "/api/proxy/modify/request",
    "/api/proxy/modify/response", "/api/proxy/inject" }

\* req.originalUrl
AppPaths ==
  ManagementPaths \cup {"/api/proxy/page", "/api/scripts", "/api/logs"}

\* the Authorization header: absent, or a bearer token that does not
\* verify, has expired, names no user, or names a user
AuthHeaders == {"missing", "invalid", "expired", "no user", "user"}

\* part_008 lines 52-54: the first middleware of the chain the path is
\* mounted on
Mount(path) ==
  IF path \in ManagementPaths \cup {"/api/proxy/page"}
    THEN "proxyMiddleware"
    ELSE "authMiddleware"

\* express hands a request to the chain of its mount path
Dispatch(path, auth) ==
  /\ aReq.pc \in {"idle", "done"}
  /\ aReq' = [path |-> path, auth |-> auth, pc |-> Mount(path),
              approved |-> FALSE, core |-> {}, answeredBy |-> None,
              status |-> NoNumber]
  /\ UNCHANGED nonAppVars

\* proxyMiddleware, lines 7-46: the request is forwarded, the exchange is
\* recorded and the response of the target is sent, line 41; next() is not
\* called.  When forwarding or recording fails, next(err), line 44.
ProxyMiddleware(outcome) ==
  /\ aReq.pc = "proxyMiddleware"
  /\ aReq' =
       CASE outcome = "sent" ->
              [aReq EXCEPT !.core = {"forward", "record"},
                           !.answeredBy = "proxyMiddleware",
                           !.status = 200, !.pc = "done"]
         [] outcome = "recording fails" ->
              [aReq EXCEPT !.core = {"forward"}, !.pc = "errorHandler"]
         [] outcome = "forwarding fails" ->
              [aReq EXCEPT !.pc = "errorHandler"]
  /\ UNCHANGED nonAppVars

\* authMiddleware, lines 94-141: 401 without a token (99), with a token
\* that does not verify (132) or has expired (135), or without a user
\* (108).  With a user, line 119 reads req.route.path; req.route is
\* undefined here, the TypeError is caught and answered 500 (138).
AuthMiddleware ==
  /\ aReq.pc = "authMiddleware"
  /\ aReq' = [aReq EXCEPT !.answeredBy = "authMiddleware",
                          !.status = IF aReq.auth = "user" THEN 500 ELSE 401,
                          !.pc = "done"]
  /\ UNCHANGED nonAppVars

\* errorHandler, lines 20-50: the errors of proxyMiddleware are none of
\* ValidationError, AuthenticationError, NotFoundError; line 43
ErrorHandler ==
  /\ aReq.pc = "errorHandler"
  /\ aReq' = [aReq EXCEPT !.answeredBy = "errorHandler", !.status = 500,
                          !.pc = "done"]
  /\ UNCHANGED nonAppVars

AppInit ==
  /\ ProxyInit /\ QueryIdle /\ ModifierIdle /\ ScriptsIdle /\ SandboxIdle /\ AppIdle /\ RouteIdle /\ TrafficIdle /\ ConfigIdle /\ DbIdle

AppNext ==
  \/ \E path \in AppPaths, auth \in AuthHeaders : Dispatch(path, auth)
  \/ \E outcome \in {"sent", "recording fails", "forwarding fails"} :
       ProxyMiddleware(outcome)
  \/ AuthMiddleware
  \/ ErrorHandler

SpecApp == AppInit /\ [][AppNext]_vars

(***************************************************************************)
(* The handlers of scriptRoutes, ScriptController and errorHandler         *)
(*   src/src/routes/scriptRoutes.js lines 17-230                           *)
(*   src/unnamed/part_004 lines 17-152                                     *)
(*   src/src/middleware/errorHandler.js lines 20-50                        *)
(*                                                                         *)
(* res.status(s).json(v) on a response that is not sent yet sends it and   *)
(* returns res.  On a response that is sent: JSON.stringify(res) throws    *)
(* (res is circular); for a value that stringifies to a string, res.send   *)
(* sets Content-Type, which throws ERR_HTTP_HEADERS_SENT; for undefined    *)
(* res.send sets no header and res.end() is ignored.                       *)
(***************************************************************************)
ScriptRoutes ==
  { "GET /", "GET /:id", "POST /", "PUT /:id", "DELETE /:id",
    "POST /:id/execute" }

\* the status of the success response of the route, which the controller
\* and the route handler both write
SuccessStatus(route) == IF route = "POST /" THEN 201 ELSE 200

\* what the route handler passes to res.json after the controller has
\* returned: a message of its own (lines 154, 186), or the value the
\* controller returned (lines 30, 62, 106, 224)
HandlerBody(route, returned) ==
  IF route \in {"PUT /:id", "DELETE /:id"} THEN "message" ELSE returned

\* a call of res.status(status).json(..): who made it, and whether it put
\* a response on the wire
Write(by, status, sent) == [by |-> by, status |-> status, sent |-> sent]

HeadersSent(c) == \E i \in DOMAIN rReq[c].writes : rReq[c].writes[i].sent

\* the router has matched the route of a request and run its validation
\* chains; requests are handled concurrently, each with its own res
Match(c, route, valid) ==
  /\ rReq[c].pc \in {"idle", "done", "unhandled rejection"}
  /\ rReq' = [rReq EXCEPT ![c] = [route |-> route, valid |-> valid, service |-> None,
              pc |-> "handler", returned |-> None, writes |-> <<>>]]
  /\ UNCHANGED nonRouteVars

\* the route handler up to the call of the controller, e.g. lines 96-105
Handler(c) ==
  /\ rReq[c].pc = "handler"
  /\ rReq' =
       IF rReq[c].valid
         THEN [rReq EXCEPT ![c].pc = "controller"]
         ELSE [rReq EXCEPT ![c].writes = Append(@, Write("route", 400, TRUE)),
                           ![c].pc = "done"]
  /\ UNCHANGED nonRouteVars

\* the controller method, e.g. part_004 lines 65-80: it answers with the
\* success status and returns res, or catches the error of the service,
\* calls next(err) and returns undefined
Controller(c, ok) ==
  /\ rReq[c].pc = "controller"
  /\ rReq' =
       IF ok
         THEN [rReq EXCEPT
                 ![c].service = "ok",
                 ![c].writes = Append(@,
                    Write("controller", SuccessStatus(rReq[c].route), TRUE)),
                 ![c].returned = "res",
                 ![c].pc = "handler resumes"]
         ELSE [rReq EXCEPT ![c].service = "failed",
                           ![c].returned = "undefined",
                           ![c].pc = "errorHandler"]
  /\ UNCHANGED nonRouteVars

\* errorHandler, lines 20-50, called by next(err): line 43 answers 500.
\* When the response is sent already, line 43 throws, line 48 throws too,
\* and the promise of errorHandler is rejected with nothing to handle it.
RouteErrorHandler(c) ==
  /\ rReq[c].pc = "errorHandler"
  /\ rReq' =
       IF HeadersSent(c)
         THEN [rReq EXCEPT
                 ![c].writes = @ \o <<Write("errorHandler", 500, FALSE),
                                   Write("errorHandler", 500, FALSE)>>,
                 ![c].pc = "unhandled rejection"]
         ELSE [rReq EXCEPT
                 ![c].writes = Append(@, Write("errorHandler", 500, TRUE)),
                 ![c].pc = "handler resumes"]
  /\ UNCHANGED nonRouteVars

\* the route handler after the await of the controller, e.g. lines 105-110:
\* it calls res.status(..).json(..) itself; when that throws, next(err)
HandlerResumes(c) ==
  /\ rReq[c].pc = "handler resumes"
  /\ rReq' =
       [rReq EXCEPT
          ![c].writes = Append(@,
             Write("route", SuccessStatus(rReq[c].route), ~HeadersSent(c))),
          ![c].pc = IF HandlerBody(rReq[c].route, rReq[c].returned) = "undefined"
                   THEN "done"
                   ELSE "errorHandler"]
  /\ UNCHANGED nonRouteVars

RouteInit ==
  /\ ProxyInit /\ QueryIdle /\ ModifierIdle /\ ScriptsIdle /\ SandboxIdle /\ AppIdle /\ RouteIdle /\ TrafficIdle /\ ConfigIdle /\ DbIdle

RouteNext ==
  \E c \in Clients :
    \/ \E route \in ScriptRoutes, valid \in BOOLEAN : Match(c, route, valid)
    \/ Handler(c)
    \/ \E ok \in BOOLEAN : Controller(c, ok)
    \/ RouteErrorHandler(c)
    \/ HandlerResumes(c)

SpecScriptRoute == RouteInit /\ [][RouteNext]_vars

(***************************************************************************)
(* GET /traffic: page and limit from the query string to skip() / limit()  *)
(*   src/src/routes/scriptRoutes.js lines 354-372                          *)
(*   src/src/controllers/proxyController.js lines 62-77                    *)
(*   src/unnamed/part_000 lines 56-59                                      *)
(*                                                                         *)
(* The values of req.query are strings.  In JavaScript arithmetic          *)
(* undefined converts to NaN, and NaN is a number.  mongoose hands a       *)
(* number passed to skip() or limit() to the store as it is, and an        *)
(* undefined limit is no limit.                                            *)
(***************************************************************************)
NaN == [t |-> "NaN", v |-> 0]

\* page and limit as they can stand in the query string
PageTexts == { <<"0">>, <<"1">>, <<"2">>, <<"x">> }
LimitTexts == { <<"0">>, <<"1">>, <<"1", "0", "0">>, <<"1", "0", "1">> }

DigitValue == ("0" :> 0) @@ ("1" :> 1) @@ ("2" :> 2)

\* toInt(): parseInt(str, 10) of a string of digits
RECURSIVE ParseInt(_)
ParseInt(chars) ==
  IF chars = <<>> THEN 0
  ELSE 10 * ParseInt(SubSeq(chars, 1, Len(chars) - 1))
         + DigitValue[chars[Len(chars)]]

\* .optional().isInt({min, max}): an absent field passes; a field that is
\* present has to be a string of digits with a value in the range min..max
OptionalIsInt(val, range) ==
  IF val.t = "undefined" THEN TRUE
  ELSE /\ val.v # <<>>
       /\ \A k \in DOMAIN val.v : val.v[k] \in DOMAIN DigitValue
       /\ ParseInt(val.v) \in range

\* .toInt() of a field that passed
ToInt(val) == IF val.t = "undefined" THEN Undefined ELSE Num(ParseInt(val.v))

\* a - b and a * b on numbers and undefined
Minus(a, b) ==
  IF a.t = "number" /\ b.t = "number" THEN Num(a.v - b.v) ELSE NaN
Multiply(a, b) ==
  IF a.t = "number" /\ b.t = "number" THEN Num(a.v * b.v) ELSE NaN

\* how many documents .skip(skip).limit(limit) returns of n selected ones
PageLength(n, skip, limit) ==
  LET rest == IF n > skip THEN n - skip ELSE 0
  IN  IF limit.t = "number" /\ limit.v < rest THEN limit.v ELSE rest

\* a GET /traffic request with valid startDate and endDate
GetTraffic(page, limit, matching) ==
  /\ tReq.pc \in {"idle", "done"}
  /\ tMatching' = matching
  /\ tReq' = [page |-> page, limit |-> limit, pc |-> "validators",
              skip |-> Undefined, size |-> Undefined, returned |-> NoNumber,
              status |-> NoNumber]
  /\ UNCHANGED nonTrafficVars

\* scriptRoutes.js lines 361-362 and proxyController.js lines 64-68
TrafficValidators ==
  /\ tReq.pc = "validators"
  /\ tReq' =
       IF /\ OptionalIsInt(tReq.page, Nat \ {0})
          /\ OptionalIsInt(tReq.limit, 1..100)
         THEN [tReq EXCEPT !.page = ToInt(@), !.limit = ToInt(@),
                           !.pc = "service"]
         ELSE [tReq EXCEPT !.status = 400, !.pc = "done"]
  /\ UNCHANGED tMatching
  /\ UNCHANGED nonTrafficVars

\* part_000 lines 56-59 with a skip that is a number of documents
TrafficPage ==
  LET skip == Multiply(Minus(tReq.page, Num(1)), tReq.limit) IN
  /\ tReq.pc = "service"
  /\ skip.t = "number"
  /\ tReq' = [tReq EXCEPT
                !.skip = skip, !.size = tReq.limit,
                !.returned = PageLength(tMatching, skip.v, tReq.limit),
                !.status = 200, !.pc = "done"]
  /\ UNCHANGED tMatching
  /\ UNCHANGED nonTrafficVars

\* part_000 lines 56-65 with the skip NaN: the store rejects the query, or
\* takes NaN for 0
TrafficPageNaN(rejected) ==
  LET skip == Multiply(Minus(tReq.page, Num(1)), tReq.limit) IN
  /\ tReq.pc = "service"
  /\ skip = NaN
  /\ tReq' = [tReq EXCEPT
                !.skip = skip, !.size = tReq.limit,
                !.returned = IF rejected THEN NoNumber
                             ELSE PageLength(tMatching, 0, tReq.limit),
                !.status = IF rejected THEN 500 ELSE 200,
                !.pc = "done"]
  /\ UNCHANGED tMatching
  /\ UNCHANGED nonTrafficVars

TrafficInit ==
  /\ ProxyInit /\ QueryIdle /\ ModifierIdle /\ ScriptsIdle /\ SandboxIdle /\ AppIdle /\ RouteIdle /\ TrafficIdle /\ ConfigIdle /\ DbIdle

TrafficNext ==
  \/ \E page \in {Undefined} \cup { Str(x) : x \in PageTexts },
        limit \in {Undefined} \cup { Str(x) : x \in LimitTexts },
        matching \in 0..MaxDocs : GetTraffic(page, limit, matching)
  \/ TrafficValidators
  \/ TrafficPage
  \/ \E rejected \in BOOLEAN : TrafficPageNaN(rejected)

SpecTraffic == TrafficInit /\ [][TrafficNext]_vars

(***************************************************************************)
(* The configuration module                                                *)
(*   src/src/config/config.js lines 26-50 (config), 59-69 (get),           *)
(*   78-120 (set)                                                          *)
(*                                                                         *)
(* A key is the sequence of its parts, key.split('.').  typeof null is     *)
(* 'object', typeof NaN is 'number'.                                       *)
(***************************************************************************)
ObjectOf(props) == [t |-> "object", v |-> props]

\* lines 64, 84, 90, 97-116: set and get throw
Threw == [t |-> "thrown", v |-> 0]

TypeOf(val) ==
  CASE val.t = "NaN" -> "number"
    [] val.t = "null" -> "object"
    [] OTHER -> val.t

\* lines 26-50: the sections server and auth; PORT and JWT_SECRET are set in
\* the environment or not
StartupConfigs ==
  { ObjectOf(
      [server |-> ObjectOf([port |-> port, env |-> Str("development")]),
       auth |-> ObjectOf([jwtSecret |-> jwtSecret,
                          jwtExpiresIn |-> Str("24h")])]) :
      port \in {Num(3000), Str("8080")},
      jwtSecret \in {Undefined, Str("secret")} }

\* the keys get and set are called with
Keys ==
  { <<"server">>, <<"auth">>, <<"cache">>,
    <<"server", "port">>, <<"server", "env">>, <<"server", "host">>,
    <<"auth", "jwtSecret">>, <<"auth", "jwtExpiresIn">>,
    <<"server", "port", "x">> }

\* the values set is called with
SetValues ==
  { Num(8080), NaN, Str("production"), Null, ObjectOf(<<>>),
    ObjectOf([port |-> Str("80")]) }

\* get(key), lines 59-69, on the object value
RECURSIVE get(_, _)
get(value, parts) ==
  IF parts = <<>> THEN value
  ELSE IF value.t # "object" THEN Threw
  ELSE IF Head(parts) \notin DOMAIN value.v THEN Threw
  ELSE get(value.v[Head(parts)], Tail(parts))

\* target[lastPart] = value, line 119, for the target lines 80-87 found
RECURSIVE Assign(_, _, _)
Assign(object, parts, value) ==
  IF Len(parts) = 1
    THEN ObjectOf((parts[1] :> value) @@ object.v)
    ELSE ObjectOf((parts[1] :> Assign(object.v[parts[1]], Tail(parts), value))
                  @@ object.v)

\* set(key, value), lines 78-120: the config object afterwards, or Threw
set(object, parts, value) ==
  LET current == get(object, parts)
      expected == TypeOf(current)
  IN  IF current = Threw THEN Threw
      ELSE IF expected = "number"
        THEN IF value.t = "number" THEN Assign(object, parts, value) ELSE Threw
      ELSE IF expected \in {"boolean", "string"}
        THEN IF value.t = expected THEN Assign(object, parts, value) ELSE Threw
      ELSE IF expected = "object"
        THEN IF value.t = "object" THEN Assign(object, parts, value) ELSE Threw
      ELSE Threw

\* require('./config'): lines 23-50
LoadConfig(object) ==
  /\ config = Undefined
  /\ startup' = object
  /\ config' = object
  /\ UNCHANGED lastSet
  /\ UNCHANGED nonConfigVars

\* config.set(key, value) returns
SetAssigns(key, value) ==
  /\ config # Undefined
  /\ set(config, key, value) # Threw
  /\ config' = set(config, key, value)
  /\ lastSet' = [key |-> key, value |-> value, threw |-> FALSE,
                 before |-> config]
  /\ UNCHANGED startup
  /\ UNCHANGED nonConfigVars

\* config.set(key, value) throws
SetThrows(key, value) ==
  /\ config # Undefined
  /\ set(config, key, value) = Threw
  /\ lastSet' = [key |-> key, value |-> value, threw |-> TRUE,
                 before |-> config]
  /\ UNCHANGED <<startup, config>>
  /\ UNCHANGED nonConfigVars

ConfigInit ==
  /\ ProxyInit /\ QueryIdle /\ ModifierIdle /\ ScriptsIdle /\ SandboxIdle /\ AppIdle /\ RouteIdle /\ TrafficIdle /\ ConfigIdle /\ DbIdle

ConfigNext ==
  \/ \E object \in StartupConfigs : LoadConfig(object)
  \/ \E key \in Keys, value \in SetValues : SetAssigns(key, value)
  \/ \E key \in Keys, value \in SetValues : SetThrows(key, value)

SpecConfig == ConfigInit /\ [][ConfigNext]_vars

(***************************************************************************)
(* The database connection and its reconnection strategy                   *)
(*   src/unnamed/part_002 lines 28-42 (connectDatabase), 44-53 (handler)   *)
(*                                                                         *)
(* mongoose emits 'disconnected' when the connection is lost.  Whether it  *)
(* emits the event again when a later mongoose.connect() fails is not      *)
(* decided by this code: both are allowed.  An attempt succeeds exactly    *)
(* when the database can be reached; attempts running at the same time     *)
(* are one attempt, and so are timers pending at the same time.            *)
(***************************************************************************)
\* the count of failed attempts, which stops at MaxAttempts
CountFailed == IF dbFailed < MaxAttempts THEN dbFailed + 1 ELSE dbFailed

\* the connection is lost: mongoose emits 'disconnected' and the handler
\* of lines 45-48 calls connectDatabase()
ConnectionLost ==
  /\ dbConnected
  /\ dbConnected' = FALSE
  /\ dbReachable' = FALSE
  /\ dbHandler' = TRUE
  /\ dbFailed' = 0
  /\ UNCHANGED <<dbTimer, dbTimerCall>>
  /\ UNCHANGED nonDbVars

\* the database can be reached again, and stays so
DatabaseReachable ==
  /\ ~dbReachable
  /\ dbReachable' = TRUE
  /\ UNCHANGED <<dbConnected, dbHandler, dbTimer, dbTimerCall, dbFailed>>
  /\ UNCHANGED nonDbVars

\* lines 48 and 31-37: the attempt of the handler connects
HandlerConnects ==
  /\ dbHandler
  /\ dbReachable
  /\ dbConnected' = TRUE
  /\ dbHandler' = FALSE
  /\ UNCHANGED <<dbReachable, dbTimer, dbTimerCall, dbFailed>>
  /\ UNCHANGED nonDbVars

\* lines 48-51 and 38-40: the attempt of the handler fails, the handler
\* sets the timer; mongoose emits 'disconnected' again or does not
HandlerFails(emitted) ==
  /\ dbHandler
  /\ ~dbReachable
  /\ dbHandler' = emitted
  /\ dbTimer' = TRUE
  /\ dbFailed' = CountFailed
  /\ UNCHANGED <<dbConnected, dbReachable, dbTimerCall>>
  /\ UNCHANGED nonDbVars

\* line 51: 5 seconds later the timer calls connectDatabase
TimerFires ==
  /\ dbTimer
  /\ dbTimer' = FALSE
  /\ dbTimerCall' = TRUE
  /\ UNCHANGED <<dbConnected, dbReachable, dbHandler, dbFailed>>
  /\ UNCHANGED nonDbVars

\* lines 31-37: the attempt of the timer connects
TimerCallConnects ==
  /\ dbTimerCall
  /\ dbReachable
  /\ dbConnected' = TRUE
  /\ dbTimerCall' = FALSE
  /\ UNCHANGED <<dbReachable, dbHandler, dbTimer, dbFailed>>
  /\ UNCHANGED nonDbVars

\* lines 38-40: the attempt of the timer fails; nothing awaits the promise
\* of connectDatabase and nothing sets a timer; mongoose emits
\* 'disconnected' again or does not
TimerCallFails(emitted) ==
  /\ dbTimerCall
  /\ ~dbReachable
  /\ dbTimerCall' = FALSE
  /\ dbHandler' = (dbHandler \/ emitted)
  /\ dbFailed' = CountFailed
  /\ UNCHANGED <<dbConnected, dbReachable, dbTimer>>
  /\ UNCHANGED nonDbVars

DbInit ==
  /\ ProxyInit /\ QueryIdle /\ ModifierIdle /\ ScriptsIdle /\ SandboxIdle /\ AppIdle /\ RouteIdle /\ TrafficIdle /\ ConfigIdle /\ DbIdle

DbNext ==
  \/ ConnectionLost
  \/ DatabaseReachable
  \/ HandlerConnects
  \/ \E emitted \in BOOLEAN : HandlerFails(emitted)
  \/ TimerFires
  \/ TimerCallConnects
  \/ \E emitted \in BOOLEAN : TimerCallFails(emitted)

SpecDb == DbInit /\ [][DbNext]_vars

\* the event loop runs an attempt that was started until it connects or
\* fails, and a timer that was set fires
SpecDbFair ==
  /\ SpecDb
  /\ WF_vars(HandlerConnects \/ \E emitted \in BOOLEAN : HandlerFails(emitted))
  /\ WF_vars(TimerFires)
  /\ WF_vars(TimerCallConnects
               \/ \E emitted \in BOOLEAN : TimerCallFails(emitted))


\* C22: every invocation of execute is in flight or in exactly one of
\* Succeeded, TimedOut, Faulted, and never leaves a terminal state; a result
\* exists only when Succeeded; a TimedOut or Faulted invocation carries an
\* error and no result, and the error of a TimedOut invocation (budget
\* exceeded) is told apart from the error of a Faulted one (script raised)
C22_OutcomeKindsToldApart ==
  /\ [](\A i \in DOMAIN xRuns :
          LET r == xRuns[i] IN
            /\ r.state \in {"Running", "Awaiting"} \cup Terminal
            /\ r.state = "Succeeded" <=> r.result # NoNumber
            /\ r.state \in {"TimedOut", "Faulted"} <=> r.error # NoErr
            /\ \A j \in DOMAIN xRuns :
                 (r.state = "TimedOut" /\ xRuns[j].state = "Faulted")
                   => r.error # xRuns[j].error)
  /\ [][\A i \in DOMAIN xRuns :
          xRuns[i].state \in Terminal => xRuns'[i] = xRuns[i]]_vars

\* C23: every invocation of execute that is running eventually reaches
\* Succeeded, TimedOut or Faulted, whatever the script does
C23_EveryInvocationTerminates ==
  \A i \in 1..MaxInvocations :
    (i \in Running) ~> (i \in DOMAIN xRuns /\ xRuns[i].state \in Terminal)

\* C24: when execute has returned or thrown, the caller's context object
\* is as it was submitted, and two invocations of the same script with
\* equal submitted contexts have the same outcome
C24_ContextIsASnapshot ==
  \A i \in DOMAIN xRuns :
    xRuns[i].state \in Terminal =>
      /\ xRuns[i].after = xRuns[i].given
      /\ \A j \in DOMAIN xRuns :
           ( /\ xRuns[j].state \in Terminal
             /\ xRuns[j].code = xRuns[i].code
             /\ xRuns[j].given = xRuns[i].given )
             => /\ xRuns[j].result = xRuns[i].result
                /\ xRuns[j].error = xRuns[i].error

\* C25: nothing of the core (forwarding to the target, recording traffic,
\* changing the configuration or the registry, executing a script) is done
\* for a request that the authentication gate has not approved
C25_GateApprovesFirst ==
  aReq.core # {} => aReq.approved

\* C27: a request to a management endpoint under /api/proxy is answered by
\* the handler of that endpoint in proxyRoutes, and is neither forwarded to
\* the target nor recorded as traffic
C27_ManagementNotProxied ==
  aReq.path \in ManagementPaths =>
    /\ aReq.core \cap {"forward", "record"} = {}
    /\ aReq.pc = "done" => aReq.answeredBy = "proxyRoutes"

\* C26: for a request to a script route res is written once: nobody writes
\* after the route handler, the controller or the error handler has
\* written, a request that is done has its response, and the response has
\* a success status only if the service operation succeeded
C26_OneResponsePerRequest ==
  \A c \in Clients :
    /\ Len(rReq[c].writes) <= 1
    /\ rReq[c].pc = "done" => Len(rReq[c].writes) = 1
    /\ \A i \in DOMAIN rReq[c].writes :
         (rReq[c].writes[i].sent /\ rReq[c].writes[i].status < 300)
           => rReq[c].service = "ok"

\* C28: when a traffic query has passed the validation of the route, also
\* one without page or without limit, getProxyTraffic skips a number of
\* documents that is an integer >= 0, uses a page size between 1 and 100,
\* and returns at most that many records
C28_SkipAndLimitWellDefined ==
  (tReq.pc = "done" /\ tReq.status # 400) =>
    /\ tReq.skip.t = "number" /\ tReq.skip.v >= 0
    /\ tReq.size.t = "number" /\ tReq.size.v >= 1 /\ tReq.size.v <= 100
    /\ tReq.returned # NoNumber => tReq.returned <= tReq.size.v

\* C29: after any calls of config.set, every key that config.get could
\* read at startup is still read without an error and with a value of the
\* type it had at startup; a call of set that throws leaves the
\* configuration as it was
C29_SetKeepsConfigReadable ==
  config # Undefined =>
    /\ \A key \in Keys :
         get(startup, key) # Threw =>
           /\ get(config, key) # Threw
           /\ TypeOf(get(config, key)) = TypeOf(get(startup, key))
    /\ lastSet.threw => config = lastSet.before

====
